---- MODULE Spec2Model ----
(***************************************************************************)
(* State-machine model of the thrylos node: the BadgerDB-backed UTXO       *)
(* ledger (BlockchainDB), transaction verification (shared), and the       *)
(* block producer (ModernBlockProducer).                                   *)
(*                                                                         *)
(* Strings that end up in store keys are modelled as sequences of          *)
(* one-character strings, so that key formatting (fmt.Sprintf) and prefix  *)
(* iteration are computed the way the code computes them.                  *)
(***************************************************************************)
EXTENDS Integers, Sequences, FiniteSets, TLC

VARIABLES
    \* ---- BlockchainDB (database package) ----
    db,             \* committed content of the Badger store: key -> value
    obs,            \* the last ledger call: its result, and whether an input
                    \* was missing, spent or not the sender's when it started
    spends,         \* per stored UTXO: committed applications that consumed it
    \* ---- BlockchainDB.GetBalance (pure call) ----
    balCall,        \* arguments and result of a GetBalance call
    \* ---- shared.VerifyTransaction (pure call) ----
    vfyCall,        \* arguments and result of a VerifyTransaction call
    \* ---- ModernBlockProducer (core package) ----
    isProducing,    \* bp.isProducing (atomic.Bool)
    lastBlockTime,  \* bp.lastBlockTime
    now,            \* the wall clock read by time.Now / time.Since
    pending,        \* bp.blockchain.PendingTransactions
    blocks,         \* the blocks produced and persisted so far
    pc,             \* per ticker goroutine: where its current tick stands
    local,          \* per ticker goroutine: the locals of its current tick
    \* ---- Node (core package) ----
    nodePending,    \* node.PendingTransactions
    nodeBlocks,     \* node.Blockchain.Blocks
    votes,          \* node.Votes
    stakeholders,   \* node.Blockchain.Stakeholders
    nobs,           \* what the last node operation was given and did
    \* ---- call frames of pure operations ----
    svCall,         \* a SignTransaction / verify round trip
    selCall,        \* two runs of SelectValidator on one table and draw
    stk,            \* the staking service: event logs, pool, rewards
    \* ---- further observers and call frames ----
    cache,          \* globalUTXOCache: key -> UTXO
    stopObs,        \* whether bp.Stop() was called, and in what state
    batch,          \* one call of processTransactionsBatch
    dbObs,          \* what the last store lookup returned
    cbCall,         \* one call of Node.CreateAndBroadcastTransaction
    admit,          \* concurrent /transaction handlers inside AddPendingTransaction
    pvCall,         \* one call of ParallelVerifyTransactions and its goroutines
    fnCall          \* arguments and result of one call of a pure function

ledgerVars == <<db, obs, spends, cache>>
balVars    == <<balCall>>
vfyVars    == <<vfyCall>>
prodVars   == <<isProducing, lastBlockTime, now, pending, blocks, pc, local>>
nodeVars   == <<nodePending, nodeBlocks, votes, stakeholders, nobs>>
svVars     == <<svCall>>
selVars    == <<selCall>>
stakeVars  == <<stk>>
extVars    == <<stopObs, batch, dbObs, cbCall>>
auxVars    == <<admit, pvCall, fnCall>>
vars       == <<ledgerVars, balVars, vfyVars, prodVars,
               nodeVars, svVars, selVars, stakeVars, extVars, auxVars>>

----------------------------------------------------------------------------
(* Bounds *)

MaxInputs   == 2      \* longest input list handed to the ledger
MaxOutputs  == 1      \* longest output list handed to the ledger
SpendCap    == 2      \* spends[] saturates here
MaxBalUTXOs == 3      \* entries of the map handed to GetBalance
NumTickers  == 2      \* calls of Start, each one a ticker goroutine
NumFairTickers == 1   \* ticker goroutines in the liveness specification
MaxTx       == 2      \* distinct transactions offered to the pending pool
TimeStep    == 600    \* clock granularity, in milliseconds
MaxTime     == 1800   \* clock horizon, in milliseconds
MaxNodePool == 2      \* entries of node.PendingTransactions
MaxChain    == 3      \* blocks in a chain, the genesis block included
MaxPeers    == 1      \* entries of node.Peers
MaxVotes    == 3      \* entries of node.Votes
MaxStake    == 2      \* largest stake in a stakeholder table

(* Input alphabets *)

EmptyStr  == << >>
Addresses == { <<"a">>, <<"b">> }
UTXOTxIds == { <<"a">>, <<"t">> }      \* UTXO.TransactionID values
Indexes   == { 0 }
Amounts   == { 1, 2 }
TxRecIds  == { <<"x">> }                \* Transaction.ID values
CreateIds == { <<"t", "-", "0">> }      \* id argument of CreateAndStoreUTXO
ArgOwners  == { <<"a">> }               \* OwnerAddress of UTXOs handed to the ledger
ArgAmounts == { 1 }                     \* Amount of UTXOs handed to the ledger

----------------------------------------------------------------------------
(* Strings *)

Digit(d) ==
    CASE d = 0 -> "0" [] d = 1 -> "1" [] d = 2 -> "2" [] d = 3 -> "3"
      [] d = 4 -> "4" [] d = 5 -> "5" [] d = 6 -> "6" [] d = 7 -> "7"
      [] d = 8 -> "8" [] d = 9 -> "9"

RECURSIVE Itoa(_)
Itoa(n) ==
    IF n < 0 THEN <<"-">> \o Itoa(0 - n)
    ELSE IF n < 10 THEN << Digit(n) >>
    ELSE Itoa(n \div 10) \o << Digit(n % 10) >>

HasPrefix(s, p) == Len(s) >= Len(p) /\ SubSeq(s, 1, Len(p)) = p

\* strings.Split(s, "-"): the list of the parts between dashes
RECURSIVE SplitDash(_)
SplitDash(s) ==
    IF \A i \in 1..Len(s) : s[i] # "-" THEN << s >>
    ELSE LET d == CHOOSE i \in 1..Len(s) :
                     s[i] = "-" /\ \A j \in 1..(i - 1) : s[j] # "-"
         IN  << SubSeq(s, 1, d - 1) >> \o SplitDash(SubSeq(s, d + 1, Len(s)))

UtxoPrefix        == <<"u", "t", "x", "o", "-">>
TransactionPrefix == <<"t", "r", "a", "n", "s", "a", "c", "t", "i", "o", "n", "-">>

----------------------------------------------------------------------------
(* shared.UTXO and shared.Transaction values *)

UTXO(id, txID, index, owner, amount, spent) ==
    [ID |-> id, TransactionID |-> txID, Index |-> index,
     OwnerAddress |-> owner, Amount |-> amount, IsSpent |-> spent]

\* shared.CreateUTXO: a fresh, unspent UTXO
CreateUTXO(id, txID, index, owner, amount) ==
    UTXO(id, txID, index, owner, amount, FALSE)

\* UTXOs a caller hands in as inputs or outputs
ArgUTXOs ==
    { UTXO(EmptyStr, t, i, o, a, FALSE) :
        t \in UTXOTxIds, i \in Indexes, o \in ArgOwners, a \in ArgAmounts }

SeqsUpTo(S, n) == UNION { [1..k -> S] : k \in 0..n }

Transaction(id, sender, inputs, outputs) ==
    [ID |-> id, Sender |-> sender, Inputs |-> inputs, Outputs |-> outputs]

UTXORef(u) == << u.TransactionID, u.Index >>
UTXORefs   == UTXOTxIds \X Indexes

----------------------------------------------------------------------------
(* The store: one Badger keyspace, written through transactions that       *)
(* either commit all their Sets or none.                                   *)

Set(txn, key, value) ==
    [k \in (DOMAIN txn) \cup {key} |-> IF k = key THEN value ELSE txn[k]]

UTXOKey(u) == UtxoPrefix \o u.TransactionID \o <<"-">> \o Itoa(u.Index)

IsUTXOKey(k) == HasPrefix(k, UtxoPrefix)

\* MarkUTXOAsSpent: overwrite the key with the caller's copy, IsSpent = true
MarkUTXOAsSpent(txn, utxo) ==
    Set(txn, UTXOKey(utxo), [utxo EXCEPT !.IsSpent = TRUE])

\* addNewUTXO: overwrite the key with the caller's copy as it is
addNewUTXO(txn, utxo) ==
    Set(txn, UTXOKey(utxo), utxo)

RECURSIVE MarkInputs(_, _)
MarkInputs(txn, inputs) ==
    IF inputs = << >> THEN txn
    ELSE MarkInputs(MarkUTXOAsSpent(txn, Head(inputs)), Tail(inputs))

RECURSIVE AddOutputs(_, _)
AddOutputs(txn, outputs) ==
    IF outputs = << >> THEN txn
    ELSE AddOutputs(addNewUTXO(txn, Head(outputs)), Tail(outputs))

\* updateUTXOsInTxn: the same two loops, inlined in the source
updateUTXOsInTxn(txn, inputs, outputs) ==
    AddOutputs(MarkInputs(txn, inputs), outputs)

\* globalUTXOCache, keyed by "<transaction id>-<index>"
CacheKey(u) == u.TransactionID \o <<"-">> \o Itoa(u.Index)

CacheRemove(c, key) == [k \in (DOMAIN c) \ {key} |-> c[k]]

CacheAdd(c, key, value) == Set(c, key, value)

RECURSIVE RemoveInputs(_, _)
RemoveInputs(c, inputs) ==
    IF inputs = << >> THEN c
    ELSE RemoveInputs(CacheRemove(c, CacheKey(Head(inputs))), Tail(inputs))

RECURSIVE CacheOutputs(_, _)
CacheOutputs(c, outputs) ==
    IF outputs = << >> THEN c
    ELSE CacheOutputs(CacheAdd(c, CacheKey(Head(outputs)), Head(outputs)),
                      Tail(outputs))

\* updateUTXOsInTxn: what its two loops do to the cache, as they go
updateUTXOsInTxnCache(c, inputs, outputs) ==
    CacheOutputs(RemoveInputs(c, inputs), outputs)

addTransactionInTxn(txn, tx) ==
    Set(txn, TransactionPrefix \o tx.ID, tx)

----------------------------------------------------------------------------
(* Observations about a call, taken in the state the call starts from *)

InputMissing(d, u) == UTXOKey(u) \notin DOMAIN d
InputSpent(d, u)   == UTXOKey(u) \in DOMAIN d /\ d[UTXOKey(u)].IsSpent
InputNotOwned(d, u, sender) ==
    UTXOKey(u) \in DOMAIN d /\ d[UTXOKey(u)].OwnerAddress # sender

Range(s) == { s[i] : i \in 1..Len(s) }

Min(a, b) == IF a < b THEN a ELSE b

\* one more committed application for every stored UTXO the inputs name
Consume(sp, d, inputs) ==
    [r \in UTXORefs |->
        IF \E u \in Range(inputs) : UTXORef(u) = r /\ UTXOKey(u) \in DOMAIN d
        THEN Min(sp[r] + 1, SpendCap) ELSE sp[r]]

----------------------------------------------------------------------------
(* Ledger operations *)

\* BlockchainDB.UpdateUTXOs(inputs, outputs)
UpdateUTXOs(inputs, outputs, storeOk) ==
    LET txn == AddOutputs(MarkInputs(db, inputs), outputs) IN
    /\ db' = IF storeOk THEN txn ELSE db
    /\ obs' = [result |-> IF storeOk THEN "ok" ELSE "err",
               bad |-> \E u \in Range(inputs) :
                          InputMissing(db, u) \/ InputSpent(db, u)]
    /\ spends' = IF storeOk THEN Consume(spends, db, inputs) ELSE spends
    /\ UNCHANGED cache
    /\ UNCHANGED <<balVars, vfyVars, prodVars, nodeVars, svVars, selVars, stakeVars, extVars, auxVars>>

\* BlockchainDB.ProcessTransaction(tx)
ProcessTransaction(tx, storeOk) ==
    LET txn == addTransactionInTxn(
                   updateUTXOsInTxn(db, tx.Inputs, tx.Outputs), tx) IN
    /\ db' = IF storeOk THEN txn ELSE db
    /\ obs' = [result |-> IF storeOk THEN "ok" ELSE "err",
               bad |-> \E u \in Range(tx.Inputs) :
                          \/ InputMissing(db, u)
                          \/ InputSpent(db, u)
                          \/ InputNotOwned(db, u, tx.Sender)]
    /\ spends' = IF storeOk THEN Consume(spends, db, tx.Inputs) ELSE spends
    /\ cache' = updateUTXOsInTxnCache(cache, tx.Inputs, tx.Outputs)
    /\ UNCHANGED <<balVars, vfyVars, prodVars, nodeVars, svVars, selVars, stakeVars, extVars, auxVars>>

\* BlockchainDB.CreateAndStoreUTXO(id, txID, index, owner, amount)
CreateAndStoreUTXO(id, txID, index, owner, amount, storeOk) ==
    LET utxo == CreateUTXO(id, txID, index, owner, amount) IN
    /\ db' = IF storeOk THEN Set(db, UtxoPrefix \o id, utxo) ELSE db
    /\ obs' = [result |-> IF storeOk THEN "ok" ELSE "err", bad |-> FALSE]
    /\ UNCHANGED <<spends, cache, balVars, vfyVars, prodVars, nodeVars, svVars, selVars, stakeVars, extVars, auxVars>>

----------------------------------------------------------------------------
(* Ledger lookups *)

StoredUTXOsWithPrefix(d, prefix) ==
    { d[k] : k \in { x \in DOMAIN d : HasPrefix(x, prefix) } }

\* GetUTXOsForAddress: every value under "utxo-<address>-"
GetUTXOsForAddress(d, address) ==
    StoredUTXOsWithPrefix(d, UtxoPrefix \o address \o <<"-">>)

\* GetUTXOsByAddress: the same iteration, grouped by the third key part
GetUTXOsByAddress(d, address) ==
    LET prefix == UtxoPrefix \o address \o <<"-">>
        keys   == { k \in DOMAIN d :
                      HasPrefix(k, prefix) /\ Len(SplitDash(k)) >= 3 }
        groups == { SplitDash(k)[3] : k \in keys }
    IN  [g \in groups |-> { d[k] : k \in { x \in keys : SplitDash(x)[3] = g } }]

\* GetUTXOs: values under "utxo-<address>" that are not spent
GetUTXOs(d, address) ==
    { u \in StoredUTXOsWithPrefix(d, UtxoPrefix \o address) : ~u.IsSpent }

----------------------------------------------------------------------------
(* Ledger specification *)

\* the block producer right after NewBlockProducer
Tickers == 1..NumTickers
TxNames == 1..MaxTx

NoLocals == [since |-> 0, drained |-> << >>, ret |-> "none", gap |-> 0]

InitProducerVars ==
    /\ isProducing = FALSE
    /\ now = 0
    /\ lastBlockTime = 0
    /\ pending = << >>
    /\ blocks = << >>
    /\ pc = [p \in Tickers |-> "off"]
    /\ local = [p \in Tickers |-> NoLocals]

\* the node right after NewNode: a chain holding the genesis block
Genesis == [Index |-> 0, Hash |-> "g", PrevHash |-> ""]

NoNodeOp == [op |-> "none"]

IdleNode ==
    /\ nodePending = << >>
    /\ nodeBlocks = << Genesis >>
    /\ votes = << >>
    /\ stakeholders = << >>
    /\ nobs = NoNodeOp

IdleSv    == svCall = [pc |-> "idle"]
IdleSel   == selCall = [pc |-> "idle"]
IdleStake == stk = [pc |-> "idle"]

IdleBal == balCall = [pc |-> "idle"]
IdleVfy == vfyCall = [pc |-> "idle"]

InitLedgerVars ==
    /\ db = << >>
    /\ obs = [result |-> "ok", bad |-> FALSE]
    /\ spends = [r \in UTXORefs |-> 0]
    /\ cache = << >>

NoStop == [stopped |-> FALSE, quiet |-> FALSE, inflight |-> {}]

IdleAux ==
    /\ admit = [pc |-> "idle"]
    /\ pvCall = [pc |-> "idle"]
    /\ fnCall = [pc |-> "idle"]

IdleExt ==
    /\ IdleAux
    /\ stopObs = NoStop
    /\ batch = [pc |-> "idle"]
    /\ dbObs = [op |-> "none"]
    /\ cbCall = [pc |-> "idle"]

IdleOthers == IdleNode /\ IdleSv /\ IdleSel /\ IdleStake /\ IdleExt

InitLedger == InitLedgerVars /\ IdleBal /\ IdleVfy /\ InitProducerVars /\ IdleOthers

Transactions ==
    { Transaction(id, s, ins, outs) :
        id \in TxRecIds, s \in Addresses,
        ins \in SeqsUpTo(ArgUTXOs, MaxInputs),
        outs \in SeqsUpTo(ArgUTXOs, MaxOutputs) }

NextLedger ==
    \/ \E ins \in SeqsUpTo(ArgUTXOs, MaxInputs),
          outs \in SeqsUpTo(ArgUTXOs, MaxOutputs), ok \in BOOLEAN :
            UpdateUTXOs(ins, outs, ok)
    \/ \E tx \in Transactions, ok \in BOOLEAN :
            ProcessTransaction(tx, ok)
    \/ \E id \in CreateIds, t \in { <<"t">> }, i \in Indexes,
          o \in Addresses, a \in ArgAmounts, ok \in BOOLEAN :
            CreateAndStoreUTXO(id, t, i, o, a, ok)

SpecLedger == InitLedger /\ [][NextLedger]_vars

----------------------------------------------------------------------------
(* BlockchainDB.GetBalance over a caller-supplied UTXO map *)

BalKeys  == 1..MaxBalUTXOs              \* stand-ins for the map's string keys
BalUTXOs ==
    { UTXO(EmptyStr, <<"t">>, 0, o, a, sp) :
        o \in Addresses, a \in Amounts, sp \in BOOLEAN }
BalMaps  == UNION { [K -> BalUTXOs] : K \in SUBSET BalKeys }

\* GetUTXOsForUser: the entries whose OwnerAddress is the address
GetUTXOsForUser(address, utxos) ==
    [k \in { x \in DOMAIN utxos : utxos[x].OwnerAddress = address } |-> utxos[k]]

RECURSIVE SumAmounts(_)
SumAmounts(m) ==
    IF DOMAIN m = {} THEN 0
    ELSE LET k == CHOOSE x \in DOMAIN m : TRUE
         IN  m[k].Amount + SumAmounts([y \in (DOMAIN m) \ {k} |-> m[y]])

\* GetBalance: the sum of the Amount of every entry GetUTXOsForUser returns
GetBalance(address, utxos) == SumAmounts(GetUTXOsForUser(address, utxos))

GetBalanceCall ==
    /\ balCall.pc = "args"
    /\ balCall' = [balCall EXCEPT !.pc = "done",
                      !.balance = GetBalance(balCall.address, balCall.utxos)]
    /\ UNCHANGED <<ledgerVars, vfyVars, prodVars, nodeVars, svVars, selVars, stakeVars, extVars, auxVars>>

InitBalance ==
    /\ balCall \in { [pc |-> "args", address |-> a, utxos |-> m, balance |-> 0] :
                       a \in Addresses, m \in BalMaps }
    /\ InitLedgerVars /\ IdleVfy /\ InitProducerVars /\ IdleOthers

NextBalance == GetBalanceCall

SpecBalance == InitBalance /\ [][NextBalance]_vars

----------------------------------------------------------------------------
(* shared.VerifyTransaction.  Ed25519 is idealised: a signature names its  *)
(* signer and the exact message signed, and verifies for nothing else.     *)
(* BLAKE2b is idealised as collision free.                                 *)

MaxVfyInputs  == 1
MaxVfyOutputs == 1

PUTXO(txID, index, owner, amount) ==
    [TransactionId |-> txID, Index |-> index, OwnerAddress |-> owner, Amount |-> amount]

VfyInputs  == { PUTXO(<<"t">>, 0, o, a) : o \in Addresses, a \in Amounts }
VfyOutputs == { PUTXO(<<"x">>, 0, <<"b">>, a) : a \in Amounts }

Keys    == { "ka", "kb" }
KeyOf   == [ad \in Addresses |-> IF ad = <<"a">> THEN "ka" ELSE "kb"]
\* getPublicKeyFunc: the addresses it knows, each with its key
Registries == { [ad \in D |-> KeyOf[ad]] : D \in { Addresses, { <<"a">> } } }

NoSig == [signer |-> "none", kind |-> "none", body |-> << >>]

ProtoTx(id, sender, inputs, outputs, sig) ==
    [Id |-> id, Sender |-> sender, Inputs |-> inputs, Outputs |-> outputs,
     Signature |-> sig]

\* proto.Marshal: the bytes carry every field, the signature included
Marshal(tx) ==
    [kind |-> "raw",
     body |-> << tx.Id, tx.Sender, tx.Inputs, tx.Outputs, tx.Signature >>]

cachedHashData(data) == [kind |-> "hash", body |-> data.body]

ed25519Sign(priv, msg) == [signer |-> priv, kind |-> msg.kind, body |-> msg.body]

ed25519Verify(pub, msg, sig) ==
    sig.signer = pub /\ sig.kind = msg.kind /\ sig.body = msg.body

ClearSig(tx) == [tx EXCEPT !.Signature = NoSig]

\* VerifyTransactionSignature (transaction.go): verify over Marshal(tx) as it is
VerifyTransactionSignature(tx, pub) ==
    ed25519Verify(pub, Marshal(tx), tx.Signature)

Result(ok, err) == [ok |-> ok, err |-> err]

\* VerifyTransaction, src/shared/transaction.go
VerifyTransaction_v1(tx, utxos, getPublicKey) ==
    IF Len(tx.Inputs) = 0 THEN Result(FALSE, TRUE)
    ELSE IF tx.Sender \notin DOMAIN getPublicKey THEN Result(FALSE, TRUE)
    ELSE IF ~VerifyTransactionSignature(tx, getPublicKey[tx.Sender])
         THEN Result(FALSE, TRUE)
    ELSE Result(TRUE, FALSE)

\* VerifyTransaction, the later revision: verify over the hash of the
\* transaction marshalled with its signature cleared
VerifyTransaction_v2(tx, utxos, getPublicKey) ==
    IF Len(tx.Inputs) = 0 THEN Result(FALSE, TRUE)
    ELSE IF tx.Sender \notin DOMAIN getPublicKey THEN Result(FALSE, TRUE)
    ELSE IF ~ed25519Verify(getPublicKey[tx.Sender],
                           cachedHashData(Marshal(ClearSig(tx))), tx.Signature)
         THEN Result(FALSE, TRUE)
    ELSE Result(TRUE, FALSE)

UnsignedTxs ==
    { ProtoTx(<<"x">>, s, ins, outs, NoSig) :
        s \in Addresses,
        ins \in SeqsUpTo(VfyInputs, MaxVfyInputs),
        outs \in SeqsUpTo(VfyOutputs, MaxVfyOutputs) }

\* the signatures a client may attach to a transaction
SignaturesFor(u) ==
    {NoSig} \cup { ed25519Sign(k, Marshal(u)) : k \in Keys }
            \cup { ed25519Sign(k, cachedHashData(Marshal(u))) : k \in Keys }

VfyTxs ==
    UNION { { [u EXCEPT !.Signature = sg] : sg \in SignaturesFor(u) } :
              u \in UnsignedTxs }

\* the UTXO map handed to VerifyTransaction: address -> list of UTXOs
VfyUTXOMaps ==
    [Addresses -> SeqsUpTo({ PUTXO(<<"t">>, 0, o, 1) : o \in Addresses }, 1)]

VerifyCall_v1 ==
    /\ vfyCall.pc = "args"
    /\ vfyCall' = [vfyCall EXCEPT !.pc = "done", !.impl = "v1",
                      !.res = VerifyTransaction_v1(vfyCall.tx, vfyCall.utxos, vfyCall.reg)]
    /\ UNCHANGED <<ledgerVars, balVars, prodVars, nodeVars, svVars, selVars, stakeVars, extVars, auxVars>>

VerifyCall_v2 ==
    /\ vfyCall.pc = "args"
    /\ vfyCall' = [vfyCall EXCEPT !.pc = "done", !.impl = "v2",
                      !.res = VerifyTransaction_v2(vfyCall.tx, vfyCall.utxos, vfyCall.reg)]
    /\ UNCHANGED <<ledgerVars, balVars, prodVars, nodeVars, svVars, selVars, stakeVars, extVars, auxVars>>

InitVerify ==
    /\ vfyCall \in { [pc |-> "args", impl |-> "none", tx |-> t, utxos |-> m,
                      reg |-> g, res |-> Result(FALSE, FALSE)] :
                       t \in VfyTxs, m \in VfyUTXOMaps, g \in Registries }
    /\ InitLedgerVars /\ IdleBal /\ InitProducerVars /\ IdleOthers

NextVerify == VerifyCall_v1 \/ VerifyCall_v2

SpecVerify == InitVerify /\ [][NextVerify]_vars


----------------------------------------------------------------------------
(* ModernBlockProducer.  Every ticker goroutine runs                       *)
(*     if bp.shouldProduceBlock() { bp.tryProduceBlock() }                 *)
(* one shared-memory access per step.  The clock is observed only through  *)
(* time.Since(lastBlockTime); at the horizon MaxTime the model lets time   *)
(* pass by moving lastBlockTime back instead of moving now forward.        *)

TargetBlockTime == 1200     \* milliseconds
MinTransactions == 1
MaxTransactions == 1000

Max(a, b) == IF a > b THEN a ELSE b

PoolIds  == { pending[i].id : i \in 1..Len(pending) }
BlockIds == UNION { { blocks[b][i].id : i \in 1..Len(blocks[b]) } :
                      b \in 1..Len(blocks) }

\* time passes
Advance ==
    /\ IF now + TimeStep <= MaxTime
       THEN now' = now + TimeStep /\ UNCHANGED lastBlockTime
       ELSE now' = now /\ lastBlockTime' = Max(lastBlockTime - TimeStep, 0)
    /\ UNCHANGED <<isProducing, pending, blocks, pc, local>>
    /\ UNCHANGED <<ledgerVars, balVars, vfyVars, nodeVars, svVars, selVars, stakeVars, extVars, auxVars>>

\* Admission to the chain's pending pool: the id is in neither the pool nor
\* the chain.  valid tells whether the transaction will pass the producer's
\* re-verification.
AdmitPending(id, valid) ==
    /\ id \notin PoolIds \cup BlockIds
    /\ \A p \in Tickers : \A i \in 1..Len(local[p].drained) :
          local[p].drained[i].id # id
    /\ pending' = Append(pending, [id |-> id, valid |-> valid])
    /\ UNCHANGED <<isProducing, lastBlockTime, now, blocks, pc, local>>
    /\ UNCHANGED <<ledgerVars, balVars, vfyVars, nodeVars, svVars, selVars, stakeVars, extVars, auxVars>>

Goto(p, label) == pc' = [pc EXCEPT ![p] = label]

\* Start: go func() { for range ticker.C { ... } }()
Start(p) ==
    /\ pc[p] = "off"
    /\ \A q \in Tickers : q < p => pc[q] # "off"
    /\ Goto(p, "idle")
    /\ UNCHANGED <<isProducing, lastBlockTime, now, pending, blocks, local>>
    /\ UNCHANGED <<ledgerVars, balVars, vfyVars, nodeVars, svVars, selVars, stakeVars, extVars, auxVars>>

\* shouldProduceBlock: if bp.isProducing.Load() { return false }
LoadFlag(p) ==
    /\ pc[p] = "idle"
    /\ Goto(p, IF isProducing THEN "idle" ELSE "readTime")
    /\ UNCHANGED <<isProducing, lastBlockTime, now, pending, blocks, local>>
    /\ UNCHANGED <<ledgerVars, balVars, vfyVars, nodeVars, svVars, selVars, stakeVars, extVars, auxVars>>

\* shouldProduceBlock: timeSinceLastBlock := time.Since(bp.lastBlockTime)
ReadTime(p) ==
    /\ pc[p] = "readTime"
    /\ local' = [local EXCEPT ![p].since = now - lastBlockTime]
    /\ Goto(p, "readPending")
    /\ UNCHANGED <<isProducing, lastBlockTime, now, pending, blocks>>
    /\ UNCHANGED <<ledgerVars, balVars, vfyVars, nodeVars, svVars, selVars, stakeVars, extVars, auxVars>>

\* shouldProduceBlock asking for more than MinTransactions pending
ShouldProduce_Strict(timeSinceLastBlock, pendingCount) ==
    timeSinceLastBlock >= TargetBlockTime /\ pendingCount > MinTransactions

\* the value shouldProduceBlock returns
ShouldProduce(timeSinceLastBlock, pendingCount) ==
    timeSinceLastBlock >= TargetBlockTime /\ pendingCount >= MinTransactions

\* shouldProduceBlock: pendingCount := len(PendingTransactions), and return
ReadPending(p) ==
    /\ pc[p] = "readPending"
    /\ Goto(p, IF ShouldProduce(local[p].since, Len(pending))
               THEN "cas" ELSE "idle")
    /\ local' = [local EXCEPT ![p] = NoLocals]
    /\ UNCHANGED <<isProducing, lastBlockTime, now, pending, blocks>>
    /\ UNCHANGED <<ledgerVars, balVars, vfyVars, nodeVars, svVars, selVars, stakeVars, extVars, auxVars>>

\* tryProduceBlock storing true into the flag without comparing
CompareAndSwap_Blind(p) ==
    /\ pc[p] = "cas"
    /\ isProducing' = TRUE
    /\ Goto(p, "produce")
    /\ local' = [local EXCEPT ![p].gap = now - lastBlockTime]
    /\ UNCHANGED <<lastBlockTime, now, pending, blocks>>
    /\ UNCHANGED <<ledgerVars, balVars, vfyVars, nodeVars, svVars, selVars, stakeVars, extVars, auxVars>>

\* tryProduceBlock: if !bp.isProducing.CompareAndSwap(false, true) { return }
CompareAndSwap(p) ==
    /\ pc[p] = "cas"
    /\ IF isProducing
       THEN Goto(p, "idle") /\ UNCHANGED <<isProducing, local>>
       ELSE /\ isProducing' = TRUE
            /\ Goto(p, "produce")
            /\ local' = [local EXCEPT ![p].gap = now - lastBlockTime]
    /\ UNCHANGED <<lastBlockTime, now, pending, blocks>>
    /\ UNCHANGED <<ledgerVars, balVars, vfyVars, nodeVars, svVars, selVars, stakeVars, extVars, auxVars>>

Take(s, n) == SubSeq(s, 1, Min(n, Len(s)))
Drop(s, n) == SubSeq(s, Min(n, Len(s)) + 1, Len(s))

\* ProcessPendingTransactions, first half: drain up to MaxTransactions
Drain(p) ==
    /\ pc[p] = "produce"
    /\ local' = [local EXCEPT ![p].drained = Take(pending, MaxTransactions)]
    /\ pending' = Drop(pending, MaxTransactions)
    /\ Goto(p, "build")
    /\ UNCHANGED <<isProducing, lastBlockTime, now, blocks>>
    /\ UNCHANGED <<ledgerVars, balVars, vfyVars, nodeVars, svVars, selVars, stakeVars, extVars, auxVars>>

ValidOnes(txs) == SelectSeq(txs, LAMBDA t : t.valid)

\* ProcessPendingTransactions, second half, no failure: the transactions
\* that pass re-verification are built into a block, which is persisted
BuildBlock(p) ==
    /\ pc[p] = "build"
    /\ LET txs == ValidOnes(local[p].drained) IN
         IF txs = << >>
         THEN /\ UNCHANGED blocks
              /\ local' = [local EXCEPT ![p].ret = "nil"]
         ELSE /\ blocks' = Append(blocks, txs)
              /\ local' = [local EXCEPT ![p].ret = "block"]
    /\ Goto(p, "ret")
    /\ UNCHANGED <<isProducing, lastBlockTime, now, pending>>
    /\ UNCHANGED <<ledgerVars, balVars, vfyVars, nodeVars, svVars, selVars, stakeVars, extVars, auxVars>>

\* ProcessPendingTransactions, second half, a step fails: the store
\* transaction is rolled back and the drained transactions go back to the
\* head of the pool in their order
BuildFails(p) ==
    /\ pc[p] = "build"
    /\ pending' = local[p].drained \o pending
    /\ local' = [local EXCEPT ![p].ret = "err"]
    /\ Goto(p, "ret")
    /\ UNCHANGED <<isProducing, lastBlockTime, now, blocks>>
    /\ UNCHANGED <<ledgerVars, balVars, vfyVars, nodeVars, svVars, selVars, stakeVars, extVars, auxVars>>

\* tryProduceBlock recording the time before it looks at err
HandleResult_TimeFirst(p) ==
    /\ pc[p] = "ret"
    /\ lastBlockTime' = now
    /\ Goto(p, "release")
    /\ UNCHANGED <<isProducing, now, pending, blocks, local>>
    /\ UNCHANGED <<ledgerVars, balVars, vfyVars, nodeVars, svVars, selVars, stakeVars, extVars, auxVars>>

\* tryProduceBlock after the call: return on err, else record the time of
\* a block that was produced
HandleResult(p) ==
    /\ pc[p] = "ret"
    /\ lastBlockTime' = IF local[p].ret = "block" THEN now ELSE lastBlockTime
    /\ Goto(p, "release")
    /\ UNCHANGED <<isProducing, now, pending, blocks, local>>
    /\ UNCHANGED <<ledgerVars, balVars, vfyVars, nodeVars, svVars, selVars, stakeVars, extVars, auxVars>>

\* defer bp.isProducing.Store(false)
Release(p) ==
    /\ pc[p] = "release"
    /\ isProducing' = FALSE
    /\ local' = [local EXCEPT ![p] = NoLocals]
    /\ Goto(p, "idle")
    /\ UNCHANGED <<lastBlockTime, now, pending, blocks>>
    /\ UNCHANGED <<ledgerVars, balVars, vfyVars, nodeVars, svVars, selVars, stakeVars, extVars, auxVars>>

TickerStep(p) ==
    \/ LoadFlag(p)
    \/ ReadTime(p)
    \/ ReadPending(p)
    \/ CompareAndSwap(p)
    \/ Drain(p)
    \/ BuildBlock(p)
    \/ HandleResult(p)
    \/ Release(p)

InitProducer ==
    InitProducerVars /\ InitLedgerVars /\ IdleBal /\ IdleVfy /\ IdleOthers

NextProducer ==
    \/ \E p \in Tickers : Start(p)
    \/ Advance
    \/ \E id \in TxNames, valid \in BOOLEAN : AdmitPending(id, valid)
    \/ \E p \in Tickers : TickerStep(p)
    \/ \E p \in Tickers : BuildFails(p)

SpecProducer == InitProducer /\ [][NextProducer]_vars

\* The producer after NumFairTickers calls of Start: every ticker keeps
\* running, time keeps passing, and the store does not fail for ever.
InitFairProducer ==
    /\ isProducing = FALSE
    /\ now = 0
    /\ lastBlockTime = 0
    /\ pending = << >>
    /\ blocks = << >>
    /\ pc = [p \in Tickers |-> IF p <= NumFairTickers THEN "idle" ELSE "off"]
    /\ local = [p \in Tickers |-> NoLocals]
    /\ InitLedgerVars /\ IdleBal /\ IdleVfy /\ IdleOthers

NextFairProducer ==
    \/ Advance
    \/ \E id \in TxNames, valid \in BOOLEAN : AdmitPending(id, valid)
    \/ \E p \in Tickers : TickerStep(p)
    \/ \E p \in Tickers : BuildFails(p)

FairSpecProducer ==
    /\ InitFairProducer /\ [][NextFairProducer]_vars
    /\ WF_vars(Advance)
    /\ \A p \in Tickers : WF_vars(TickerStep(p))
    /\ \A p \in Tickers : SF_vars(BuildBlock(p))

\* a ticker between acquiring isProducing and releasing it
Attempting(p) == pc[p] \in {"produce", "build", "ret", "release"}

\* ModernBlockProducer.Stop.  stopObs records that it was called, whether
\* every ticker stood between two ticks then, and which attempts were in
\* flight.
Stop ==
    /\ ~stopObs.stopped
    /\ isProducing' = FALSE
    /\ stopObs' = [stopped  |-> TRUE,
                   quiet    |-> \A p \in Tickers : pc[p] = "idle",
                   inflight |-> { p \in Tickers : Attempting(p) }]
    /\ UNCHANGED <<lastBlockTime, now, pending, blocks, pc, local>>
    /\ UNCHANGED <<batch, dbObs, cbCall, auxVars>>
    /\ UNCHANGED <<ledgerVars, balVars, vfyVars, nodeVars, svVars, selVars, stakeVars>>

\* the producer after NumTickers calls of Start, with Stop
InitStop ==
    /\ isProducing = FALSE
    /\ now = 0
    /\ lastBlockTime = 0
    /\ pending = << >>
    /\ blocks = << >>
    /\ pc = [p \in Tickers |-> "idle"]
    /\ local = [p \in Tickers |-> NoLocals]
    /\ InitLedgerVars /\ IdleBal /\ IdleVfy /\ IdleOthers

NextStop ==
    \/ Advance
    \/ \E id \in TxNames, valid \in BOOLEAN : AdmitPending(id, valid)
    \/ \E p \in Tickers : TickerStep(p)
    \/ \E p \in Tickers : BuildFails(p)
    \/ Stop

SpecStop == InitStop /\ [][NextStop]_vars

----------------------------------------------------------------------------
(* Node: the submit paths.  The HTTP handlers verify and then append to    *)
(* node.PendingTransactions; the SubmitTransaction RPC stores directly.    *)

HInputs == { << >>, << PUTXO(<<"t">>, 0, <<"a">>, 1) >> }

HUnsigned ==
    { ProtoTx(Itoa(n), sender, ins, << >>, NoSig) :
        n \in TxNames, sender \in { EmptyStr, <<"a">> }, ins \in HInputs }

\* the transactions a client may send: unsigned, or signed by the key of a
\* over the bytes without signature
HTxs ==
    HUnsigned \cup
    { [u EXCEPT !.Signature = ed25519Sign("ka", Marshal(u))] : u \in HUnsigned }

\* node.PublicKeyMap
PublicKeyMap == [ad \in { <<"a">> } |-> KeyOf[ad]]

\* the signature check the handlers call: over the bytes of the
\* transaction with its signature cleared
VerifySignatureCleared(tx, pub) ==
    ed25519Verify(pub, Marshal(ClearSig(tx)), tx.Signature)

\* Node.VerifyAndProcessTransaction: TRUE when it returns nil
VerifyAndProcessTransaction(tx) ==
    IF Len(tx.Inputs) = 0 THEN FALSE
    ELSE IF tx.Inputs[1].OwnerAddress \notin DOMAIN PublicKeyMap THEN FALSE
    ELSE VerifySignatureCleared(tx, PublicKeyMap[tx.Inputs[1].OwnerAddress])

\* ConvertJSONToProto copies Id, Timestamp, Signature, Inputs and Outputs
ConvertJSONToProto(jsonTx) == [jsonTx EXCEPT !.Sender = EmptyStr]

\* Node.AddPendingTransaction
AddPendingTransaction(tx) == nodePending' = Append(nodePending, tx)

NodeObs(op, verified, mutated) ==
    [op |-> op, verified |-> verified, mutated |-> mutated]

\* Node.SubmitTransactionHandler
SubmitTransactionHandler(tx) ==
    /\ Len(nodePending) < MaxNodePool
    /\ IF VerifyAndProcessTransaction(tx)
       THEN AddPendingTransaction(tx)
       ELSE UNCHANGED nodePending
    /\ nobs' = NodeObs("SubmitTransactionHandler",
                       VerifyAndProcessTransaction(tx),
                       VerifyAndProcessTransaction(tx))
    /\ UNCHANGED <<nodeBlocks, votes, stakeholders>>
    /\ UNCHANGED <<ledgerVars, balVars, vfyVars, prodVars, svVars, selVars, stakeVars, extVars, auxVars>>

\* Node.Start: the /transaction handler
TransactionHandler(jsonTx) ==
    /\ Len(nodePending) < MaxNodePool
    /\ LET tx == ConvertJSONToProto(jsonTx) IN
         /\ IF VerifyAndProcessTransaction(tx)
            THEN AddPendingTransaction(tx)
            ELSE UNCHANGED nodePending
         /\ nobs' = NodeObs("TransactionHandler",
                            VerifyAndProcessTransaction(tx),
                            VerifyAndProcessTransaction(tx))
    /\ UNCHANGED <<nodeBlocks, votes, stakeholders>>
    /\ UNCHANGED <<ledgerVars, balVars, vfyVars, prodVars, svVars, selVars, stakeVars, extVars, auxVars>>

\* core.ConvertProtoTransactionToShared
ConvertProtoTransactionToShared(tx) ==
    [ID |-> tx.Id, Sender |-> tx.Sender, Inputs |-> tx.Inputs,
     Outputs |-> tx.Outputs, Signature |-> tx.Signature]

\* a store that drops the key prefix
AddTransaction_NoPrefix(d, tx) == Set(d, tx.ID, tx)

\* BlockchainDB.AddTransaction
AddTransaction(d, tx) == Set(d, TransactionPrefix \o tx.ID, tx)

\* Go pointers: nil, or a pointer to a value
NilPtr   == [nil |-> TRUE]
Ptr(v)   == [nil |-> FALSE, val |-> v]

\* *pb.TransactionRequest values handed to the RPC
Requests ==
    {NilPtr, Ptr([Transaction |-> NilPtr])}
      \cup { Ptr([Transaction |-> Ptr(tx)]) : tx \in HTxs }

NilRequest(req) == req.nil \/ req.val.Transaction.nil

RpcObs(req, storeOk, verified, mutated, code, status) ==
    [op |-> "SubmitTransaction", verified |-> verified, mutated |-> mutated,
     req |-> req, storeOk |-> storeOk, code |-> code, status |-> status]

\* server.SubmitTransaction (gRPC)
SubmitTransaction(req, storeOk) ==
    /\ IF NilRequest(req)
       THEN /\ db' = db
            /\ nobs' = RpcObs(req, storeOk, FALSE, FALSE, "InvalidArgument", "")
       ELSE LET tx == ConvertProtoTransactionToShared(req.val.Transaction.val) IN
              /\ db' = IF storeOk THEN AddTransaction(db, tx) ELSE db
              /\ nobs' = RpcObs(req, storeOk,
                               VerifyAndProcessTransaction(req.val.Transaction.val),
                               storeOk,
                               IF storeOk THEN "OK" ELSE "Internal",
                               IF storeOk THEN "Transaction added successfully" ELSE "")
    /\ UNCHANGED <<obs, spends, cache>>
    /\ UNCHANGED <<nodePending, nodeBlocks, votes, stakeholders>>
    /\ UNCHANGED <<balVars, vfyVars, prodVars, svVars, selVars, stakeVars, extVars, auxVars>>

InitNode ==
    /\ IdleNode
    /\ InitLedgerVars /\ IdleBal /\ IdleVfy /\ InitProducerVars
    /\ IdleSv /\ IdleSel /\ IdleStake /\ IdleExt

NextNode ==
    \/ \E tx \in HTxs : SubmitTransactionHandler(tx)
    \/ \E tx \in HTxs : TransactionHandler(tx)
    \/ \E req \in Requests, storeOk \in BOOLEAN : SubmitTransaction(req, storeOk)

SpecNode == InitNode /\ [][NextNode]_vars

\* the RPC alone, on a store that starts empty
InitRpc == InitNode

NextRpc == \E req \in Requests, storeOk \in BOOLEAN : SubmitTransaction(req, storeOk)

SpecRpc == InitRpc /\ [][NextRpc]_vars

\* the producer with one ticker, next to the HTTP submit handlers
InitSubmit == InitFairProducer

NextSubmit ==
    \/ NextFairProducer
    \/ \E tx \in HTxs : SubmitTransactionHandler(tx)
    \/ \E tx \in HTxs : TransactionHandler(tx)

SpecSubmit == InitSubmit /\ [][NextSubmit]_vars

----------------------------------------------------------------------------
(* Node: the chain as peers extend it *)

Block(index, hash, prevHash) ==
    [Index |-> index, Hash |-> hash, PrevHash |-> prevHash]

\* blocks a peer may send
PeerBlocks ==
    { Block(i, h, ph) : i \in 1..(MaxChain - 1), h \in {"h1", "h2"},
                        ph \in {"g", "h1", "h2"} }

\* the chains a peer may answer /blockchain with
PeerChains == { << Genesis >> \o t : t \in SeqsUpTo(PeerBlocks, MaxChain - 1) }

\* SyncBlockchain, one peer: append the blocks past the local length
SyncFromPeer(blks, peerBlocks) ==
    IF Len(peerBlocks) > Len(blks)
    THEN blks \o SubSeq(peerBlocks, Len(blks) + 1, Len(peerBlocks))
    ELSE blks

RECURSIVE SyncFromPeers(_, _)
SyncFromPeers(blks, responses) ==
    IF responses = << >> THEN blks
    ELSE SyncFromPeers(SyncFromPeer(blks, Head(responses)), Tail(responses))

\* Node.SyncBlockchain: responses holds what each peer of node.Peers answers
SyncBlockchain(responses) ==
    /\ nodeBlocks' = SyncFromPeers(nodeBlocks, responses)
    /\ nobs' = [op |-> "SyncBlockchain"]
    /\ UNCHANGED <<nodePending, votes, stakeholders>>
    /\ UNCHANGED <<ledgerVars, balVars, vfyVars, prodVars, svVars, selVars, stakeVars, extVars, auxVars>>

\* Blockchain.ValidateBlock
ValidateBlock(block, prevBlock) ==
    block.Index = prevBlock.Index + 1 /\ block.PrevHash = prevBlock.Hash

\* Blockchain.AddBlock(transactions, validator, prevHash, timestamp)
AddBlock(blks, block) ==
    Append(blks, Block(blks[Len(blks)].Index + 1, block.Hash, block.PrevHash))

\* Node.Start: the /block handler
BlockHandler(block) ==
    /\ Len(nodeBlocks) < MaxChain
    /\ LET prevBlock == nodeBlocks[Len(nodeBlocks)] IN
         nodeBlocks' = IF ValidateBlock(block, prevBlock)
                       THEN AddBlock(nodeBlocks, block)
                       ELSE nodeBlocks
    /\ nobs' = [op |-> "BlockHandler"]
    /\ UNCHANGED <<nodePending, votes, stakeholders>>
    /\ UNCHANGED <<ledgerVars, balVars, vfyVars, prodVars, svVars, selVars, stakeVars, extVars, auxVars>>

NextChain ==
    \/ \E responses \in SeqsUpTo(PeerChains, MaxPeers) : SyncBlockchain(responses)
    \/ \E block \in PeerBlocks : BlockHandler(block)

SpecChain == InitNode /\ [][NextChain]_vars

----------------------------------------------------------------------------
(* Node: votes *)

RECURSIVE SumStakes(_)
SumStakes(tbl) ==
    IF DOMAIN tbl = {} THEN 0
    ELSE LET a == CHOOSE x \in DOMAIN tbl : TRUE
         IN  tbl[a] + SumStakes([x \in DOMAIN tbl \ {a} |-> tbl[x]])

\* Blockchain.TotalStake
TotalStake(tbl) == SumStakes(tbl)

VoteTables ==
    { << >>,
      [ad \in Addresses |-> 1],
      [ad \in Addresses |-> IF ad = <<"a">> THEN 2 ELSE 1] }

Vote(blockHash, validator, stake) ==
    [BlockHash |-> blockHash, Validator |-> validator, Stake |-> stake]

PeerVotes ==
    { Vote(h, v, st) : h \in {"h1", "h2"}, v \in { <<"a">> }, st \in {1, 2} }

\* Node.Start: the /vote handler
VoteHandler(vote) ==
    /\ Len(votes) < MaxVotes
    /\ votes' = Append(votes, vote)
    /\ nobs' = [op |-> "VoteHandler"]
    /\ UNCHANGED <<nodePending, nodeBlocks, stakeholders>>
    /\ UNCHANGED <<ledgerVars, balVars, vfyVars, prodVars, svVars, selVars, stakeVars, extVars, auxVars>>

\* voteStakes[hash] after the first k votes
RECURSIVE VoteStake(_, _, _)
VoteStake(vs, hash, k) ==
    IF k = 0 THEN 0
    ELSE VoteStake(vs, hash, k - 1)
            + (IF vs[k].BlockHash = hash THEN vs[k].Stake ELSE 0)

\* the loop of CountVotes breaks at the first vote that lifts its hash to
\* the majority stake
ReachesMajority(vs, majorityStake) ==
    \E k \in 1..Len(vs) : VoteStake(vs, vs[k].BlockHash, k) >= majorityStake

\* Node.CountVotes
CountVotes ==
    /\ LET majorityStake == TotalStake(stakeholders) \div 2 + 1 IN
         votes' = IF ReachesMajority(votes, majorityStake) THEN << >> ELSE votes
    /\ nobs' = [op |-> "CountVotes"]
    /\ UNCHANGED <<nodePending, nodeBlocks, stakeholders>>
    /\ UNCHANGED <<ledgerVars, balVars, vfyVars, prodVars, svVars, selVars, stakeVars, extVars, auxVars>>

InitVotes ==
    /\ nodePending = << >>
    /\ nodeBlocks = << Genesis >>
    /\ votes = << >>
    /\ stakeholders \in VoteTables
    /\ nobs = NoNodeOp
    /\ InitLedgerVars /\ IdleBal /\ IdleVfy /\ InitProducerVars
    /\ IdleSv /\ IdleSel /\ IdleStake /\ IdleExt

NextVotes ==
    \/ \E vote \in PeerVotes : VoteHandler(vote)
    \/ CountVotes

SpecVotes == InitVotes /\ [][NextVotes]_vars

----------------------------------------------------------------------------
(* Signing a transaction and verifying what was signed *)

\* SignTransaction: sign the marshalled transaction, then set tx.Signature
SignTransaction(tx, priv) ==
    [tx EXCEPT !.Signature = ed25519Sign(priv, Marshal(tx))]

SignCall ==
    /\ svCall.pc = "args"
    /\ svCall' = [svCall EXCEPT !.pc = "signed",
                                !.tx = SignTransaction(svCall.tx, svCall.key)]
    /\ UNCHANGED <<ledgerVars, balVars, vfyVars, prodVars, nodeVars, selVars, stakeVars, extVars, auxVars>>

VerifySignatureCall ==
    /\ svCall.pc = "signed"
    /\ svCall' = [svCall EXCEPT !.pc = "sigChecked",
                     !.sigOk = VerifyTransactionSignature(svCall.tx, svCall.key)]
    /\ UNCHANGED <<ledgerVars, balVars, vfyVars, prodVars, nodeVars, selVars, stakeVars, extVars, auxVars>>

\* VerifyTransaction with a key lookup that answers the signer's public key
VerifyTransactionCall ==
    /\ svCall.pc = "sigChecked"
    /\ svCall' = [svCall EXCEPT !.pc = "done",
                     !.txOk = VerifyTransaction_v1(svCall.tx, << >>,
                                 [ad \in Addresses |-> svCall.key]).ok]
    /\ UNCHANGED <<ledgerVars, balVars, vfyVars, prodVars, nodeVars, selVars, stakeVars, extVars, auxVars>>

InitSignVerify ==
    /\ svCall \in { [pc |-> "args", tx |-> t, key |-> k,
                     sigOk |-> FALSE, txOk |-> FALSE] :
                      t \in UnsignedTxs, k \in Keys }
    /\ InitLedgerVars /\ IdleBal /\ IdleVfy /\ InitProducerVars
    /\ IdleNode /\ IdleSel /\ IdleStake /\ IdleExt

NextSignVerify == SignCall \/ VerifySignatureCall \/ VerifyTransactionCall

SpecSignVerify == InitSignVerify /\ [][NextSignVerify]_vars

----------------------------------------------------------------------------
(* Blockchain.SelectValidator.  A Go map is ranged over in an order the    *)
(* runtime picks anew each time: order is that order.                      *)

SelAddresses == { <<"a">>, <<"b">>, <<"c">> }

StakeTables ==
    UNION { [D -> 0..MaxStake] : D \in SUBSET SelAddresses }

\* the orders in which range may visit the keys of tbl
RangeOrders(tbl) ==
    { o \in [1..Cardinality(DOMAIN tbl) -> DOMAIN tbl] :
        \A i, j \in DOMAIN o : o[i] = o[j] => i = j }

\* the loop over bc.Stakeholders: subtract each stake, return at the first
\* address that takes randStake below 0
\* the loop returning as soon as randStake is no longer positive
RECURSIVE WalkStakes_NonStrict(_, _, _)
WalkStakes_NonStrict(tbl, order, randStake) ==
    IF order = << >> THEN EmptyStr
    ELSE LET rest == randStake - tbl[Head(order)] IN
           IF rest <= 0 THEN Head(order)
           ELSE WalkStakes_NonStrict(tbl, Tail(order), rest)

\* a walk that ignores the stakes and picks by position
WalkStakes_ByPosition(tbl, order, randStake) ==
    IF order = << >> THEN EmptyStr
    ELSE order[(randStake % Len(order)) + 1]

RECURSIVE WalkStakes(_, _, _)
WalkStakes(tbl, order, randStake) ==
    IF order = << >> THEN EmptyStr
    ELSE LET rest == randStake - tbl[Head(order)] IN
           IF rest < 0 THEN Head(order)
           ELSE WalkStakes(tbl, Tail(order), rest)

\* rngOk: SecureRandomInt returned no error; draw: the value it returned
SelectValidator(tbl, order, rngOk, draw) ==
    IF TotalStake(tbl) = 0 THEN EmptyStr
    ELSE IF ~rngOk THEN EmptyStr
    ELSE WalkStakes(tbl, order, draw)

SelectFirstRun(order) ==
    /\ selCall.pc = "args"
    /\ selCall' = [selCall EXCEPT !.pc = "one",
                     !.res1 = SelectValidator(selCall.tbl, order,
                                              selCall.rngOk, selCall.draw)]
    /\ UNCHANGED <<ledgerVars, balVars, vfyVars, prodVars, nodeVars, svVars, stakeVars, extVars, auxVars>>

SelectSecondRun(order) ==
    /\ selCall.pc = "one"
    /\ selCall' = [selCall EXCEPT !.pc = "done",
                     !.res2 = SelectValidator(selCall.tbl, order,
                                              selCall.rngOk, selCall.draw)]
    /\ UNCHANGED <<ledgerVars, balVars, vfyVars, prodVars, nodeVars, svVars, stakeVars, extVars, auxVars>>

\* SecureRandomInt(totalStake) answers a value of 0..totalStake-1
Draws(tbl) == 0..Max(TotalStake(tbl) - 1, 0)

InitSelect ==
    /\ selCall \in { [pc |-> "args", tbl |-> t, rngOk |-> ok, draw |-> r,
                      res1 |-> EmptyStr, res2 |-> EmptyStr] :
                       t \in StakeTables, ok \in BOOLEAN, r \in 0..(3 * MaxStake) }
    /\ selCall.draw \in Draws(selCall.tbl)
    /\ InitLedgerVars /\ IdleBal /\ IdleVfy /\ InitProducerVars
    /\ IdleNode /\ IdleSv /\ IdleStake /\ IdleExt

NextSelect ==
    \/ \E order \in RangeOrders(selCall.tbl) : SelectFirstRun(order)
    \/ \E order \in RangeOrders(selCall.tbl) : SelectSecondRun(order)

SpecSelect == InitSelect /\ [][NextSelect]_vars

----------------------------------------------------------------------------
(* StakingService: stake events and the reward of a period.               *)
(* Times are hours since stakingPeriodStartTime, amounts are THRLY, and    *)
(* rewards are counted in units of 10^6 base units, which keeps every      *)
(* product below 2^31.                                                     *)

stakingPeriodStartTime == 0
stakingPeriodEndTime   == 24

stakingAddress1 == "0x1234567890"
stakingAddress2 == "0x0987654321"
stakingAddress3 == "0x1357924680"
StakeAddrs == {stakingAddress1, stakingAddress2, stakingAddress3}

StakeCall(kind, amount, ts) == [kind |-> kind, amount |-> amount, ts |-> ts]

a1t1 == StakeCall("stake", 100, 0)
a1t2 == StakeCall("unstake", 50, 12)
a2t1 == StakeCall("stake", 200, 0)
a2t2 == StakeCall("stake", 150, 5)
a3t1 == StakeCall("stake", 150, 12)
a3t2 == StakeCall("unstake", 100, 20)

\* the calls the service is driven with, from any address
StakeCalls == {a1t1, a1t2, a2t1, a2t2, a3t1, a3t2}

CallsOf(kind) == {c \in StakeCalls : c.kind = kind}

StakeEvent(ts, delta) == [ts |-> ts, delta |-> delta]

\* the event logs TestRewardDistribution builds
TestEvents ==
    (stakingAddress1 :> << StakeEvent(0, 100), StakeEvent(12, -50) >>) @@
    (stakingAddress2 :> << StakeEvent(0, 200), StakeEvent(5, 150) >>) @@
    (stakingAddress3 :> << StakeEvent(12, 150), StakeEvent(20, -100) >>)

\* expectedRewards, to the nearest 10^6 base units
expectedRewards ==
    (stakingAddress1 :> 21817) @@
    (stakingAddress2 :> 92721) @@
    (stakingAddress3 :> 16969)

\* the budget of one period: what expectedRewards adds up to
PeriodBudget == 131507

\* the times at which a reward period is closed
RewardTimes == {12, stakingPeriodEndTime}

NoRewards == [op |-> "none"]

\* NewStakingService(blockchain), pool.LastRewardTime = stakingPeriodStartTime
NewStakingService ==
    [pc |-> "open",
     events |-> [a \in StakeAddrs |-> << >>],
     LastRewardTime |-> stakingPeriodStartTime,
     remainder |-> 0,
     ret |-> NoRewards]

RECURSIVE ActiveStake(_)
ActiveStake(log) ==
    IF log = << >> THEN 0 ELSE Head(log).delta + ActiveStake(Tail(log))

\* events of one address are keyed by their timestamp and kept in order
LaterThanLast(log, ts) ==
    IF log = << >> THEN TRUE ELSE log[Len(log)].ts < ts

createStakeInternal(s, addr, amount, ts) ==
    [s EXCEPT !.events[addr] = Append(@, StakeEvent(ts, amount)),
              !.ret = NoRewards]

unstakeTokensInternal(s, addr, amount, ts) ==
    [s EXCEPT !.events[addr] = Append(@, StakeEvent(ts, 0 - amount)),
              !.ret = NoRewards]

CreateStakeForTest(addr, amount, ts) ==
    /\ stk.pc = "open"
    /\ LaterThanLast(stk.events[addr], ts)
    /\ stk' = createStakeInternal(stk, addr, amount, ts)
    /\ UNCHANGED <<ledgerVars, balVars, vfyVars, prodVars, nodeVars,
                   svVars, selVars, extVars, auxVars>>

UnstakeTokensForTest(addr, amount, ts) ==
    /\ stk.pc = "open"
    /\ LaterThanLast(stk.events[addr], ts)
    /\ amount <= ActiveStake(stk.events[addr])
    /\ stk' = unstakeTokensInternal(stk, addr, amount, ts)
    /\ UNCHANGED <<ledgerVars, balVars, vfyVars, prodVars, nodeVars,
                   svVars, selVars, extVars, auxVars>>

Clamp(t, lo, hi) == Max(lo, Min(t, hi))

\* I_a: the stake held, times the hours it was held, summed along the log;
\* an event before t contributes from t on, one after t1 not at all
\* the integral taken over the amounts of the events, not over the stake held
RECURSIVE StakeIntegral_PerEvent(_, _, _, _)
StakeIntegral_PerEvent(log, stake, t, t1) ==
    IF log = << >> THEN stake * (t1 - t)
    ELSE LET te == Clamp(Head(log).ts, t, t1) IN
           stake * (te - t)
             + StakeIntegral_PerEvent(Tail(log), Head(log).delta, te, t1)

RECURSIVE StakeIntegral(_, _, _, _)
StakeIntegral(log, stake, t, t1) ==
    IF log = << >> THEN stake * (t1 - t)
    ELSE LET te == Clamp(Head(log).ts, t, t1) IN
           stake * (te - t)
             + StakeIntegral(Tail(log), stake + Head(log).delta, te, t1)

RECURSIVE SumOver(_, _)
SumOver(f, S) ==
    IF S = {} THEN 0
    ELSE LET a == CHOOSE x \in S : TRUE IN f[a] + SumOver(f, S \ {a})

\* n / d to the nearest integer, a tie going to the even one
RoundHalfEven(n, d) ==
    LET q == n \div d
        r == n % d
    IN  IF 2 * r < d THEN q
        ELSE IF 2 * r > d THEN q + 1
        ELSE IF q % 2 = 0 THEN q ELSE q + 1

calculateStakeReward(s, endTime) ==
    LET I       == [a \in StakeAddrs |->
                      StakeIntegral(s.events[a], 0, s.LastRewardTime, endTime)]
        total   == SumOver(I, StakeAddrs)
        budget  == PeriodBudget + s.remainder
        rewards == [a \in StakeAddrs |->
                      IF total = 0 THEN 0
                      ELSE RoundHalfEven(budget * I[a], total)]
    IN  [s EXCEPT
           !.LastRewardTime = endTime,
           !.remainder = IF total = 0 THEN @
                         ELSE budget - SumOver(rewards, StakeAddrs),
           !.ret = [op |-> "calc", t0 |-> s.LastRewardTime, t1 |-> endTime,
                    budget |-> budget, rewards |-> rewards]]

CalculateStakeReward(endTime) ==
    /\ stk.pc = "open"
    /\ stk.LastRewardTime < endTime
    /\ stk' = calculateStakeReward(stk, endTime)
    /\ UNCHANGED <<ledgerVars, balVars, vfyVars, prodVars, nodeVars,
                   svVars, selVars, extVars, auxVars>>

InitStake ==
    /\ stk = NewStakingService
    /\ InitLedgerVars /\ IdleBal /\ IdleVfy /\ InitProducerVars
    /\ IdleNode /\ IdleSv /\ IdleSel /\ IdleExt

NextStake ==
    \/ \E addr \in StakeAddrs : \E c \in CallsOf("stake") :
         CreateStakeForTest(addr, c.amount, c.ts)
    \/ \E addr \in StakeAddrs : \E c \in CallsOf("unstake") :
         UnstakeTokensForTest(addr, c.amount, c.ts)
    \/ \E endTime \in RewardTimes : CalculateStakeReward(endTime)

SpecStake == InitStake /\ [][NextStake]_vars

----------------------------------------------------------------------------
(* processTransactionsBatch: the calling goroutine and its five workers,   *)
(* one channel operation, store call or WaitGroup operation per step.      *)

NumWorkers == 5
MaxBatch   == 2      \* longest batch handed to processTransactionsBatch

Workers == 1..NumWorkers

WorkerOff == [pc |-> "off", tx |-> 0]

BatchCall(transactions) ==
    [pc |-> "call", txs |-> transactions, i |-> 1,
     chan |-> << >>, closed |-> FALSE,
     w |-> [k \in Workers |-> WorkerOff],
     staged |-> {}, failed |-> {}, committed |-> {}, ret |-> "none"]

\* wg.Wait() returns once every worker has called wg.Done()
WaitReturns(b) == \A k \in Workers : b.w[k].pc = "done"

\* the calling goroutine can take its next step
MainEnabled(b) ==
    IF b.pc = "wait" THEN WaitReturns(b)
    ELSE b.pc \in {"call", "spawn", "dispatch", "commit"}

\* the next step of the calling goroutine; commitOk is what
\* db.CommitTransaction answers
MainStep(b, commitOk) ==
    CASE b.pc = "call" ->
           \* len(transactions) == 0 returns nil; else db.BeginTransaction()
           IF b.txs = << >>
           THEN [b EXCEPT !.pc = "done", !.ret = "nil"]
           ELSE [b EXCEPT !.pc = "spawn"]
      [] b.pc = "spawn" ->
           \* wg.Add(1); go func() { ... }()
           [b EXCEPT !.w[b.i] = [pc |-> "recv", tx |-> 0],
                     !.i = IF b.i = NumWorkers THEN 1 ELSE b.i + 1,
                     !.pc = IF b.i = NumWorkers THEN "dispatch" ELSE "spawn"]
      [] b.pc = "dispatch" ->
           \* txChannel <- tx: the buffer holds len(transactions)
           [b EXCEPT !.chan = Append(b.chan, b.txs[b.i]),
                     !.i = b.i + 1,
                     !.pc = IF b.i = Len(b.txs) THEN "wait" ELSE "dispatch"]
      [] b.pc = "wait" ->
           [b EXCEPT !.pc = "commit"]
      [] b.pc = "commit" ->
           \* db.CommitTransaction(txn), then the deferred rollback and
           \* close(txChannel)
           [b EXCEPT !.committed = IF commitOk THEN b.staged ELSE {},
                     !.ret = IF commitOk THEN "nil" ELSE "err",
                     !.closed = TRUE,
                     !.pc = "done"]

BatchMain(commitOk) ==
    /\ batch.pc # "idle"
    /\ MainEnabled(batch)
    /\ batch' = MainStep(batch, commitOk)
    /\ UNCHANGED <<stopObs, dbObs, cbCall, auxVars>>
    /\ UNCHANGED <<ledgerVars, balVars, vfyVars, prodVars, nodeVars,
                   svVars, selVars, stakeVars>>

\* for tx := range txChannel: take a value, or leave the loop once the
\* channel is closed and empty (defer wg.Done())
WorkerReceive(k) ==
    /\ batch.pc # "idle"
    /\ batch.w[k].pc = "recv"
    /\ IF batch.chan # << >>
       THEN batch' = [batch EXCEPT !.w[k] = [pc |-> "proc", tx |-> Head(batch.chan)],
                                   !.chan = Tail(batch.chan)]
       ELSE /\ batch.closed
            /\ batch' = [batch EXCEPT !.w[k] = [pc |-> "done", tx |-> 0]]
    /\ UNCHANGED <<stopObs, dbObs, cbCall, auxVars>>
    /\ UNCHANGED <<ledgerVars, balVars, vfyVars, prodVars, nodeVars,
                   svVars, selVars, stakeVars>>

\* processSingleTransaction(txn, tx, db); an error is logged and the loop
\* continues
processSingleTransaction(k, setOk) ==
    /\ batch.pc # "idle"
    /\ batch.w[k].pc = "proc"
    /\ batch' = [batch EXCEPT
                   !.staged = IF setOk THEN @ \cup {batch.w[k].tx} ELSE @,
                   !.failed = IF setOk THEN @ ELSE @ \cup {batch.w[k].tx},
                   !.w[k] = [pc |-> "recv", tx |-> 0]]
    /\ UNCHANGED <<stopObs, dbObs, cbCall, auxVars>>
    /\ UNCHANGED <<ledgerVars, balVars, vfyVars, prodVars, nodeVars,
                   svVars, selVars, stakeVars>>

InitBatch ==
    /\ batch \in { BatchCall(t) : t \in SeqsUpTo(TxNames, MaxBatch) }
    /\ stopObs = NoStop /\ dbObs = [op |-> "none"] /\ cbCall = [pc |-> "idle"]
    /\ IdleAux
    /\ InitLedgerVars /\ IdleBal /\ IdleVfy /\ InitProducerVars
    /\ IdleNode /\ IdleSv /\ IdleSel /\ IdleStake

NextBatch ==
    \/ \E commitOk \in BOOLEAN : BatchMain(commitOk)
    \/ \E k \in Workers : WorkerReceive(k)
    \/ \E k \in Workers, setOk \in BOOLEAN : processSingleTransaction(k, setOk)

SpecBatch == InitBatch /\ [][NextBatch]_vars

----------------------------------------------------------------------------
(* The store as a sorted keyspace: blocks under "block-<n>", private keys  *)
(* under "privateKey-<address>".  Badger iterates keys in byte order.      *)

MaxBlockNumber == 10    \* highest block number handed to InsertBlock
MaxKeyLen      == 1     \* longest private key, in bytes

BlockPrefix      == <<"b", "l", "o", "c", "k", "-">>
PrivateKeyPrefix == <<"p", "r", "i", "v", "a", "t", "e", "K", "e", "y", "-">>

\* the characters of store keys, in byte order
AsciiOrder ==
    << "-", "0", "1", "2", "3", "4", "5", "6", "7", "8", "9", "K",
       "a", "b", "c", "e", "i", "k", "l", "n", "o", "p", "r", "s", "t",
       "u", "v", "x", "y" >>

CharCode(c) == CHOOSE i \in 1..Len(AsciiOrder) : AsciiOrder[i] = c

\* bytes.Compare(a, b) < 0
RECURSIVE KeyLess(_, _)
KeyLess(a, b) ==
    IF b = << >> THEN FALSE
    ELSE IF a = << >> THEN TRUE
    ELSE IF Head(a) = Head(b) THEN KeyLess(Tail(a), Tail(b))
    ELSE CharCode(Head(a)) < CharCode(Head(b))

\* where a reverse iterator stands after Rewind, and after skipping keys
LastKey(keys) == CHOOSE k \in keys : \A j \in keys \ {k} : KeyLess(j, k)

IsDigit(c) == \E d \in 0..9 : Digit(d) = c

RECURSIVE AtoiValue(_)
AtoiValue(s) ==
    IF s = << >> THEN 0
    ELSE AtoiValue(SubSeq(s, 1, Len(s) - 1)) * 10
           + (CHOOSE d \in 0..9 : Digit(d) = s[Len(s)])

\* strconv.Atoi on the text after the prefix
Atoi(s) ==
    IF s # << >> /\ \A i \in 1..Len(s) : IsDigit(s[i])
    THEN [err |-> FALSE, value |-> AtoiValue(s)]
    ELSE [err |-> TRUE, value |-> 0]

TrimPrefix(s, p) == IF HasPrefix(s, p) THEN SubSeq(s, Len(p) + 1, Len(s)) ELSE s

BlockKeys(d) == { k \in DOMAIN d : HasPrefix(k, BlockPrefix) }

\* BlockchainDB.InsertBlock(blockData, blockNumber); blocks are inserted
\* in the order of their numbers
InsertBlock(blockData, blockNumber, storeOk) ==
    /\ blockNumber = Cardinality(BlockKeys(db))
    /\ db' = IF storeOk
             THEN Set(db, BlockPrefix \o Itoa(blockNumber), blockData)
             ELSE db
    /\ dbObs' = [op |-> "InsertBlock", index |-> blockNumber, err |-> ~storeOk]
    /\ UNCHANGED <<obs, spends, cache>>
    /\ UNCHANGED <<stopObs, batch, cbCall, auxVars>>
    /\ UNCHANGED <<balVars, vfyVars, prodVars, nodeVars, svVars, selVars, stakeVars>>

\* GetLastBlockData: the first key with the prefix, iterating in reverse
LastBlockData(d) ==
    IF BlockKeys(d) = {} THEN [err |-> TRUE, index |-> -1]
    ELSE LET n == Atoi(TrimPrefix(LastKey(BlockKeys(d)), BlockPrefix)) IN
           IF n.err THEN [err |-> TRUE, index |-> -1]
           ELSE [err |-> FALSE, index |-> n.value]

\* GetLastBlockIndex: the key the reverse iterator stands on after Rewind,
\* if it has the prefix
LastBlockIndex(d) ==
    IF DOMAIN d = {} THEN [err |-> TRUE, index |-> -1]
    ELSE LET key == LastKey(DOMAIN d) IN
           IF ~HasPrefix(key, BlockPrefix) THEN [err |-> TRUE, index |-> -1]
           ELSE LET n == Atoi(TrimPrefix(key, BlockPrefix)) IN
                  IF n.err THEN [err |-> TRUE, index |-> -1]
                  ELSE [err |-> FALSE, index |-> n.value]

GetLastBlockData ==
    /\ dbObs' = [op |-> "GetLastBlockData",
                 index |-> LastBlockData(db).index, err |-> LastBlockData(db).err]
    /\ UNCHANGED <<ledgerVars, stopObs, batch, cbCall, auxVars>>
    /\ UNCHANGED <<balVars, vfyVars, prodVars, nodeVars, svVars, selVars, stakeVars>>

GetLastBlockIndex ==
    /\ dbObs' = [op |-> "GetLastBlockIndex",
                 index |-> LastBlockIndex(db).index, err |-> LastBlockIndex(db).err]
    /\ UNCHANGED <<ledgerVars, stopObs, batch, cbCall, auxVars>>
    /\ UNCHANGED <<balVars, vfyVars, prodVars, nodeVars, svVars, selVars, stakeVars>>

\* the byte that base64.StdEncoding writes for a 6-bit value
B64Char(v) ==
    IF v < 26 THEN 65 + v
    ELSE IF v < 52 THEN 71 + v
    ELSE IF v < 62 THEN v - 4
    ELSE IF v = 62 THEN 43 ELSE 47

\* base64.StdEncoding.EncodeToString, as bytes
RECURSIVE Base64(_)
Base64(b) ==
    IF Len(b) = 0 THEN << >>
    ELSE IF Len(b) = 1 THEN
        << B64Char(b[1] \div 4), B64Char((b[1] % 4) * 16), 61, 61 >>
    ELSE IF Len(b) = 2 THEN
        << B64Char(b[1] \div 4), B64Char((b[1] % 4) * 16 + b[2] \div 16),
           B64Char((b[2] % 16) * 4), 61 >>
    ELSE
        << B64Char(b[1] \div 4), B64Char((b[1] % 4) * 16 + b[2] \div 16),
           B64Char((b[2] % 16) * 4 + b[3] \div 64), B64Char(b[3] % 64) >>
          \o Base64(SubSeq(b, 4, Len(b)))

\* AES-256-GCM under bdb.encryptionKey, idealised: the sealed bytes open to
\* what was sealed, whatever the nonce
encryptData(data, nonce) == [nonce |-> nonce, sealed |-> data]
decryptData(encryptedData) == encryptedData.sealed

Nonces    == { "n1", "n2" }
KeyBytes  == { 0, 255 }
PrivateKeys == SeqsUpTo(KeyBytes, MaxKeyLen)

\* BlockchainDB.InsertOrUpdatePrivateKey(address, privateKey)
InsertOrUpdatePrivateKey(address, privateKey, nonce, storeOk) ==
    /\ LET encodedKey   == Base64(privateKey)
           encryptedKey == encryptData(encodedKey, nonce)
       IN  db' = IF storeOk
                 THEN Set(db, PrivateKeyPrefix \o address, encryptedKey)
                 ELSE db
    /\ dbObs' = [op |-> "InsertOrUpdatePrivateKey", address |-> address,
                 key |-> privateKey, err |-> ~storeOk]
    /\ UNCHANGED <<obs, spends, cache>>
    /\ UNCHANGED <<stopObs, batch, cbCall, auxVars>>
    /\ UNCHANGED <<balVars, vfyVars, prodVars, nodeVars, svVars, selVars, stakeVars>>

\* BlockchainDB.RetrievePrivateKey(address)
RetrievePrivateKey(address) ==
    /\ dbObs' = IF (PrivateKeyPrefix \o address) \in DOMAIN db
                THEN [op |-> "RetrievePrivateKey", address |-> address,
                      ret |-> decryptData(db[PrivateKeyPrefix \o address]),
                      err |-> FALSE]
                ELSE [op |-> "RetrievePrivateKey", address |-> address,
                      ret |-> << >>, err |-> TRUE]
    /\ UNCHANGED <<ledgerVars, stopObs, batch, cbCall, auxVars>>
    /\ UNCHANGED <<balVars, vfyVars, prodVars, nodeVars, svVars, selVars, stakeVars>>

InitStore ==
    /\ InitLedgerVars /\ IdleBal /\ IdleVfy /\ InitProducerVars /\ IdleOthers

NextStore ==
    \/ \E n \in 0..MaxBlockNumber, storeOk \in BOOLEAN :
         InsertBlock([block |-> n], n, storeOk)
    \/ GetLastBlockData
    \/ GetLastBlockIndex
    \/ \E address \in Addresses, k \in PrivateKeys, nonce \in Nonces,
          storeOk \in BOOLEAN :
         InsertOrUpdatePrivateKey(address, k, nonce, storeOk)
    \/ \E address \in Addresses : RetrievePrivateKey(address)

SpecStore == InitStore /\ [][NextStore]_vars

----------------------------------------------------------------------------
(* NewBlockchain on a fresh data directory: the genesis block is built,    *)
(* stored under block 0 and made Blocks[0].  The constructor, the block    *)
(* encoding and GetBlock are modelled from the specification; InsertBlock  *)
(* and RetrieveBlock are the store's.                                      *)

GenesisTxID == <<"g", "e", "n", "e", "s", "i", "s">>
GenesisSupplies == { 1, 2 }

\* hash == H(index, timestamp, prev_hash, merkle_of(transactions), validator)
BlockHash(index, timestamp, prevHash, transactions, validator) ==
    <<"H", index, timestamp, prevHash,
      [i \in 1..Len(transactions) |-> transactions[i].ID], validator>>

GenesisBlock(account, supply, timestamp) ==
    LET mint == [ID |-> GenesisTxID, Sender |-> EmptyStr, Inputs |-> << >>,
                 Outputs |-> << [OwnerAddress |-> account, Amount |-> supply] >>]
    IN  [Index |-> 0, Timestamp |-> timestamp, Transactions |-> << mint >>,
         Validator |-> account, PrevHash |-> << >>,
         Hash |-> BlockHash(0, timestamp, << >>, << mint >>, account)]

\* the encoded Block stored under block-{index}: its six fields
EncodeBlock(b) ==
    [index |-> b.Index, timestamp |-> b.Timestamp, transactions |-> b.Transactions,
     validator |-> b.Validator, prev_hash |-> b.PrevHash, hash |-> b.Hash]

DecodeBlock(e) ==
    [Index |-> e.index, Timestamp |-> e.timestamp, Transactions |-> e.transactions,
     Validator |-> e.validator, PrevHash |-> e.prev_hash, Hash |-> e.hash]

\* a lookup under the key without its dash
RetrieveBlock_NoDash(d, blockNumber) ==
    LET key == <<"b", "l", "o", "c", "k">> \o Itoa(blockNumber) IN
      IF key \in DOMAIN d THEN [err |-> FALSE, data |-> d[key]]
      ELSE [err |-> TRUE, data |-> << >>]

\* BlockchainDB.RetrieveBlock(blockNumber)
RetrieveBlock(d, blockNumber) ==
    LET key == BlockPrefix \o Itoa(blockNumber) IN
      IF key \in DOMAIN d THEN [err |-> FALSE, data |-> d[key]]
      ELSE [err |-> TRUE, data |-> << >>]

\* chain.NewBlockchain(config) on a fresh data directory
NewBlockchain(account, supply, timestamp, storeOk) ==
    /\ db = << >>
    /\ nodeBlocks = << >>
    /\ dbObs.op = "none"
    /\ LET genesis == GenesisBlock(account, supply, timestamp) IN
         /\ db' = IF storeOk
                  THEN Set(db, BlockPrefix \o Itoa(genesis.Index), EncodeBlock(genesis))
                  ELSE db
         /\ nodeBlocks' = IF storeOk THEN << genesis >> ELSE nodeBlocks
    /\ dbObs' = [op |-> "NewBlockchain", err |-> ~storeOk]
    /\ UNCHANGED <<obs, spends, cache>>
    /\ UNCHANGED <<nodePending, votes, stakeholders, nobs>>
    /\ UNCHANGED <<stopObs, batch, cbCall, auxVars>>
    /\ UNCHANGED <<balVars, vfyVars, prodVars, svVars, selVars, stakeVars>>

\* the store's GetBlock(blockNumber)
GetBlock(blockNumber) ==
    /\ dbObs.op # "none"
    /\ LET r == RetrieveBlock(db, blockNumber) IN
         dbObs' = IF r.err
                  THEN [op |-> "GetBlock", index |-> blockNumber, err |-> TRUE]
                  ELSE [op |-> "GetBlock", index |-> blockNumber, err |-> FALSE,
                        block |-> DecodeBlock(r.data)]
    /\ UNCHANGED <<ledgerVars, stopObs, batch, cbCall, auxVars>>
    /\ UNCHANGED <<balVars, vfyVars, prodVars, nodeVars, svVars, selVars, stakeVars>>

InitGenesis ==
    /\ InitLedgerVars /\ IdleBal /\ IdleVfy /\ InitProducerVars
    /\ IdleSv /\ IdleSel /\ IdleStake /\ IdleExt
    /\ nodePending = << >> /\ nodeBlocks = << >> /\ votes = << >>
    /\ stakeholders = << >> /\ nobs = NoNodeOp

NextGenesis ==
    \/ \E account \in Addresses, supply \in GenesisSupplies,
          timestamp \in 0..MaxBlockNumber, storeOk \in BOOLEAN :
         NewBlockchain(account, supply, timestamp, storeOk)
    \/ \E n \in 1..MaxBlockNumber, storeOk \in BOOLEAN :
         InsertBlock([block |-> n], n, storeOk)
    \/ GetBlock(0)

SpecGenesis == InitGenesis /\ [][NextGenesis]_vars

----------------------------------------------------------------------------
(* Node.CreateAndBroadcastTransaction: collecting inputs and building the  *)
(* outputs of a payment.                                                   *)

MaxAmount      == 3     \* requested amounts range over -MaxAmount..MaxAmount
MaxSenderUTXOs == 3     \* most unspent outputs the sender holds

SenderUTXOs == SeqsUpTo({1, 2}, MaxSenderUTXOs)

\* a loop that takes every UTXO of the sender
RECURSIVE CollectFrom_All(_, _, _, _)
CollectFrom_All(utxos, i, amount, acc) ==
    IF i > Len(utxos) THEN acc
    ELSE CollectFrom_All(utxos, i + 1, amount,
                         [collectedAmount |-> acc.collectedAmount + utxos[i],
                          collectedInputs |-> Append(acc.collectedInputs, utxos[i])])

\* the loop of CollectInputsForTransaction over utxos[i..]
RECURSIVE CollectFrom(_, _, _, _)
CollectFrom(utxos, i, amount, acc) ==
    IF i > Len(utxos) \/ acc.collectedAmount >= amount THEN acc
    ELSE CollectFrom(utxos, i + 1, amount,
                     [collectedAmount |-> acc.collectedAmount + utxos[i],
                      collectedInputs |-> Append(acc.collectedInputs, utxos[i])])

\* Node.CollectInputsForTransaction(amount, senderAddress), utxos being what
\* GetUTXOsForAddress(senderAddress) returns
CollectInputsForTransaction(amount, utxos) ==
    LET c == CollectFrom(utxos, 1, amount,
                         [collectedAmount |-> 0, collectedInputs |-> << >>])
    IN  IF c.collectedAmount < amount
        THEN [err |-> TRUE, inputs |-> << >>, change |-> 0]
        ELSE [err |-> FALSE, inputs |-> c.collectedInputs,
              change |-> c.collectedAmount - amount]

\* Node.CreateAndBroadcastTransaction(recipientAddress, _, amount, _, _),
\* up to the call that signs the transaction
CreateAndBroadcastTransaction ==
    /\ cbCall.pc = "call"
    /\ LET r == CollectInputsForTransaction(cbCall.amount, cbCall.utxos)
           outputs == << [OwnerAddress |-> "recipient", Amount |-> cbCall.amount] >>
       IN  cbCall' =
             IF r.err
             THEN [pc |-> "done", amount |-> cbCall.amount, utxos |-> cbCall.utxos,
                   err |-> TRUE, inputs |-> << >>, change |-> 0, outputs |-> << >>]
             ELSE [pc |-> "done", amount |-> cbCall.amount, utxos |-> cbCall.utxos,
                   err |-> FALSE, inputs |-> r.inputs, change |-> r.change,
                   outputs |-> IF r.change > 0
                               THEN Append(outputs, [OwnerAddress |-> "sender",
                                                     Amount |-> r.change])
                               ELSE outputs]
    /\ UNCHANGED <<stopObs, batch, dbObs, auxVars>>
    /\ UNCHANGED <<ledgerVars, balVars, vfyVars, prodVars, nodeVars, svVars, selVars, stakeVars>>

InitCreate ==
    /\ InitLedgerVars /\ IdleBal /\ IdleVfy /\ InitProducerVars
    /\ IdleNode /\ IdleSv /\ IdleSel /\ IdleStake
    /\ stopObs = NoStop /\ batch = [pc |-> "idle"] /\ dbObs = [op |-> "none"]
    /\ IdleAux
    /\ \E amount \in (0 - MaxAmount)..MaxAmount, utxos \in SenderUTXOs :
         cbCall = [pc |-> "call", amount |-> amount, utxos |-> utxos]

NextCreate == CreateAndBroadcastTransaction

SpecCreate == InitCreate /\ [][NextCreate]_vars

----------------------------------------------------------------------------
(* Concurrent admissions.  net/http serves every request on a goroutine of *)
(* its own, and AddPendingTransaction appends to node.PendingTransactions  *)
(* without a lock: the append reads the slice and then stores the result,  *)
(* and other handlers may run in between.                                  *)

NumHandlers == 3      \* concurrent /transaction requests

Handlers == 1..NumHandlers

\* the transaction handler h was sent
HandlerTx(h) == ProtoTx(Itoa(h), <<"a">>, << >>, << >>, NoSig)

\* append(node.PendingTransactions, tx): the read of the slice
AddPendingLoad(h) ==
    /\ admit.pc[h] = "call"
    /\ admit' = [admit EXCEPT !.pc[h] = "loaded", !.read[h] = nodePending]
    /\ UNCHANGED <<nodePending, nodeBlocks, votes, stakeholders, nobs>>
    /\ UNCHANGED <<pvCall, fnCall>>
    /\ UNCHANGED <<ledgerVars, balVars, vfyVars, prodVars, svVars, selVars, stakeVars, extVars>>

\* node.PendingTransactions = ...: the store of the appended slice, and return
AddPendingStore(h) ==
    /\ admit.pc[h] = "loaded"
    /\ nodePending' = Append(admit.read[h], HandlerTx(h))
    /\ admit' = [admit EXCEPT !.pc[h] = "returned"]
    /\ UNCHANGED <<nodeBlocks, votes, stakeholders, nobs>>
    /\ UNCHANGED <<pvCall, fnCall>>
    /\ UNCHANGED <<ledgerVars, balVars, vfyVars, prodVars, svVars, selVars, stakeVars, extVars>>

InitAdmit ==
    /\ InitLedgerVars /\ IdleBal /\ IdleVfy /\ InitProducerVars
    /\ IdleNode /\ IdleSv /\ IdleSel /\ IdleStake
    /\ stopObs = NoStop /\ batch = [pc |-> "idle"] /\ dbObs = [op |-> "none"]
    /\ cbCall = [pc |-> "idle"]
    /\ pvCall = [pc |-> "idle"] /\ fnCall = [pc |-> "idle"]
    /\ admit = [pc |-> [h \in Handlers |-> "call"],
                read |-> [h \in Handlers |-> << >>]]

NextAdmit ==
    \/ \E h \in Handlers : AddPendingLoad(h)
    \/ \E h \in Handlers : AddPendingStore(h)

SpecAdmit == InitAdmit /\ [][NextAdmit]_vars

----------------------------------------------------------------------------
(* shared.ValidateTransaction(tx, availableUTXOs): inputs are looked up in *)
(* the map under TransactionID + strconv.Itoa(Index).                      *)

MaxValInputs  == 2      \* longest input list handed to ValidateTransaction
MaxValOutputs == 1      \* longest output list handed to ValidateTransaction

ValTxIds   == { <<"1">>, <<"1", "1">> }
ValIndexes == { 2, 12 }

ValInputs ==
    { UTXO(EmptyStr, t, i, <<"a">>, a, FALSE) :
        t \in ValTxIds, i \in ValIndexes, a \in Amounts }

ValOutputs ==
    { UTXO(EmptyStr, <<"x">>, 0, <<"b">>, a, FALSE) : a \in { 2, 3 } }

\* utxoKey := input.TransactionID + strconv.Itoa(input.Index)
UtxoMapKey(input) == input.TransactionID \o Itoa(input.Index)

ValKeys == { UtxoMapKey(u) : u \in ValInputs }

\* the slices a map entry may hold
ValSlices ==
    { << >>,
      << UTXO(EmptyStr, <<"1">>, 2, <<"a">>, 1, FALSE) >>,
      << UTXO(EmptyStr, <<"1">>, 2, <<"a">>, 2, FALSE),
         UTXO(EmptyStr, <<"1">>, 2, <<"a">>, 1, FALSE) >> }

AvailableMaps ==
    UNION { [ks -> ValSlices] : ks \in SUBSET ValKeys }

\* an input sum taken from what the inputs declare
RECURSIVE ValidateInputs_Declared(_, _, _, _)
ValidateInputs_Declared(inputs, availableUTXOs, i, inputSum) ==
    IF i > Len(inputs) THEN [found |-> TRUE, inputSum |-> inputSum]
    ELSE LET utxoKey == UtxoMapKey(inputs[i]) IN
           IF utxoKey \notin DOMAIN availableUTXOs
           THEN [found |-> FALSE, inputSum |-> inputSum]
           ELSE IF Len(availableUTXOs[utxoKey]) = 0
           THEN [found |-> FALSE, inputSum |-> inputSum]
           ELSE ValidateInputs_Declared(inputs, availableUTXOs, i + 1,
                                        inputSum + inputs[i].Amount)

\* the first loop of ValidateTransaction, from input i on
RECURSIVE ValidateInputs(_, _, _, _)
ValidateInputs(inputs, availableUTXOs, i, inputSum) ==
    IF i > Len(inputs) THEN [found |-> TRUE, inputSum |-> inputSum]
    ELSE LET utxoKey == UtxoMapKey(inputs[i]) IN
           IF utxoKey \notin DOMAIN availableUTXOs
           THEN [found |-> FALSE, inputSum |-> inputSum]
           ELSE IF Len(availableUTXOs[utxoKey]) = 0
           THEN [found |-> FALSE, inputSum |-> inputSum]
           ELSE ValidateInputs(inputs, availableUTXOs, i + 1,
                               inputSum + availableUTXOs[utxoKey][1].Amount)

RECURSIVE OutputSum(_)
OutputSum(outputs) ==
    IF outputs = << >> THEN 0
    ELSE Head(outputs).Amount + OutputSum(Tail(outputs))

\* shared.ValidateTransaction
ValidateTransaction(tx, availableUTXOs) ==
    LET r == ValidateInputs(tx.Inputs, availableUTXOs, 1, 0) IN
      IF ~r.found THEN FALSE
      ELSE r.inputSum = OutputSum(tx.Outputs)

ValidateTransactionCall ==
    /\ fnCall.pc = "call"
    /\ fnCall.op = "ValidateTransaction"
    /\ fnCall' = [fnCall EXCEPT !.pc = "done",
                    !.ret = ValidateTransaction(fnCall.tx, fnCall.available)]
    /\ UNCHANGED <<admit, pvCall>>
    /\ UNCHANGED <<ledgerVars, balVars, vfyVars, prodVars, nodeVars, svVars, selVars, stakeVars, extVars>>

InitValidate ==
    /\ InitLedgerVars /\ IdleBal /\ IdleVfy /\ InitProducerVars
    /\ IdleNode /\ IdleSv /\ IdleSel /\ IdleStake
    /\ stopObs = NoStop /\ batch = [pc |-> "idle"] /\ dbObs = [op |-> "none"]
    /\ cbCall = [pc |-> "idle"]
    /\ admit = [pc |-> "idle"] /\ pvCall = [pc |-> "idle"]
    /\ \E ins \in SeqsUpTo(ValInputs, MaxValInputs),
          outs \in SeqsUpTo(ValOutputs, MaxValOutputs),
          available \in AvailableMaps :
         fnCall = [pc |-> "call", op |-> "ValidateTransaction",
                   tx |-> Transaction(<<"x">>, <<"a">>, ins, outs),
                   available |-> available, ret |-> FALSE]

NextValidate == ValidateTransactionCall

SpecValidate == InitValidate /\ [][NextValidate]_vars

----------------------------------------------------------------------------
(* shared.ParallelVerifyTransactions: one goroutine per transaction; a     *)
(* goroutine whose VerifyTransaction returns an error sends it to          *)
(* errorChan, the others store their verdict in results under the mutex.   *)

MaxParallel == 2      \* transactions in one batch

ParallelBatches == SeqsUpTo(HTxs, MaxParallel)

\* go func(tx) { ... }(tx): the goroutine of transactions[i] runs to its end
VerifyWorker(i) ==
    /\ pvCall.pc = "wait"
    /\ i \in 1..Len(pvCall.transactions)
    /\ i \notin pvCall.finished
    /\ LET tx == pvCall.transactions[i]
           r  == VerifyTransaction_v1(tx, pvCall.utxos, PublicKeyMap)
       IN  pvCall' =
             IF r.err
             THEN [pvCall EXCEPT !.finished = @ \cup {i},
                                 !.errorChan = Append(@, i)]
             ELSE [pvCall EXCEPT !.finished = @ \cup {i},
                                 !.results = Set(@, tx.Id, r.ok)]
    /\ UNCHANGED <<admit, fnCall>>
    /\ UNCHANGED <<ledgerVars, balVars, vfyVars, prodVars, nodeVars, svVars, selVars, stakeVars, extVars>>

\* wg.Wait(); close(errorChan); the first error received, or the map
ParallelVerifyReturn ==
    /\ pvCall.pc = "wait"
    /\ pvCall.finished = 1..Len(pvCall.transactions)
    /\ pvCall' = [pvCall EXCEPT
                    !.pc = "returned",
                    !.ret = IF pvCall.errorChan # << >>
                            THEN [err |-> TRUE, results |-> << >>,
                                  from |-> Head(pvCall.errorChan)]
                            ELSE [err |-> FALSE, results |-> pvCall.results,
                                  from |-> 0]]
    /\ UNCHANGED <<admit, fnCall>>
    /\ UNCHANGED <<ledgerVars, balVars, vfyVars, prodVars, nodeVars, svVars, selVars, stakeVars, extVars>>

InitParallelVerify ==
    /\ InitLedgerVars /\ IdleBal /\ IdleVfy /\ InitProducerVars
    /\ IdleNode /\ IdleSv /\ IdleSel /\ IdleStake
    /\ stopObs = NoStop /\ batch = [pc |-> "idle"] /\ dbObs = [op |-> "none"]
    /\ cbCall = [pc |-> "idle"]
    /\ admit = [pc |-> "idle"] /\ fnCall = [pc |-> "idle"]
    /\ \E transactions \in ParallelBatches :
         pvCall = [pc |-> "wait", transactions |-> transactions,
                   utxos |-> << >>, finished |-> {}, results |-> << >>,
                   errorChan |-> << >>,
                   ret |-> [err |-> FALSE, results |-> << >>, from |-> 0]]

NextParallelVerify ==
    \/ \E i \in 1..MaxParallel : VerifyWorker(i)
    \/ ParallelVerifyReturn

SpecParallelVerify == InitParallelVerify /\ [][NextParallelVerify]_vars

----------------------------------------------------------------------------
(* SelectValidator over every draw SecureRandomInt(totalStake) can return: *)
(* how many draws select each address, for one table and one range order.  *)

SelectedBy(tbl, order, a) ==
    { r \in 0..(TotalStake(tbl) - 1) : SelectValidator(tbl, order, TRUE, r) = a }

SelectValidatorOverDraws ==
    /\ fnCall.pc = "call"
    /\ fnCall.op = "SelectValidator"
    /\ fnCall' = [fnCall EXCEPT !.pc = "done",
                    !.ret = [a \in DOMAIN fnCall.tbl |->
                               Cardinality(SelectedBy(fnCall.tbl, fnCall.order, a))]]
    /\ UNCHANGED <<admit, pvCall>>
    /\ UNCHANGED <<ledgerVars, balVars, vfyVars, prodVars, nodeVars, svVars, selVars, stakeVars, extVars>>

InitWeighted ==
    /\ InitLedgerVars /\ IdleBal /\ IdleVfy /\ InitProducerVars
    /\ IdleNode /\ IdleSv /\ IdleSel /\ IdleStake
    /\ stopObs = NoStop /\ batch = [pc |-> "idle"] /\ dbObs = [op |-> "none"]
    /\ cbCall = [pc |-> "idle"]
    /\ admit = [pc |-> "idle"] /\ pvCall = [pc |-> "idle"]
    /\ \E tbl \in StakeTables :
         \E order \in RangeOrders(tbl) :
           fnCall = [pc |-> "call", op |-> "SelectValidator",
                     tbl |-> tbl, order |-> order, ret |-> << >>]

NextWeighted == SelectValidatorOverDraws

SpecWeighted == InitWeighted /\ [][NextWeighted]_vars

----------------------------------------------------------------------------
(* validateTimestamp(timestamp): time.Since(time.Unix(timestamp, 0)).Hours() *)
(* < 1.  Times are in seconds since the epoch.                             *)

Hour     == 3600      \* seconds in the hour that Hours() counts
MaxClock == 4         \* clock readings after the second hour of the epoch

ClockReadings == { 2 * Hour + k : k \in 0..MaxClock }

TimestampOffsets ==
    { 0 - 2 * Hour, 0 - Hour - 1, 0 - Hour, 1 - Hour, 0 - 1800, 0 - 1,
      0, 1, 1800, Hour, 2 * Hour }

\* time.Since(t): the clock reading minus t
Since(clock, t) == clock - t

\* validateTimestamp
validateTimestamp(clock, timestamp) == Since(clock, timestamp) < Hour

validateTimestampCall ==
    /\ fnCall.pc = "call"
    /\ fnCall.op = "validateTimestamp"
    /\ fnCall' = [fnCall EXCEPT !.pc = "done",
                    !.ret = validateTimestamp(fnCall.clock, fnCall.timestamp)]
    /\ UNCHANGED <<admit, pvCall>>
    /\ UNCHANGED <<ledgerVars, balVars, vfyVars, prodVars, nodeVars, svVars, selVars, stakeVars, extVars>>

InitTimestamp ==
    /\ InitLedgerVars /\ IdleBal /\ IdleVfy /\ InitProducerVars
    /\ IdleNode /\ IdleSv /\ IdleSel /\ IdleStake
    /\ stopObs = NoStop /\ batch = [pc |-> "idle"] /\ dbObs = [op |-> "none"]
    /\ cbCall = [pc |-> "idle"]
    /\ admit = [pc |-> "idle"] /\ pvCall = [pc |-> "idle"]
    /\ \E clock \in ClockReadings, off \in TimestampOffsets :
         fnCall = [pc |-> "call", op |-> "validateTimestamp",
                   clock |-> clock, timestamp |-> clock + off, ret |-> FALSE]

NextTimestamp == validateTimestampCall

SpecTimestamp == InitTimestamp /\ [][NextTimestamp]_vars

----------------------------------------------------------------------------
(* shared.Transaction <-> thrylos.Transaction conversions, and             *)
(* CreateAndSignTransaction, which signs the converted transaction and     *)
(* converts it back.                                                       *)

MaxConvUTXOs == 1     \* longest input or output list of a converted transaction

NoBytes == << >>

\* shared.Transaction
LocalTransaction(id, sender, timestamp, inputs, outputs, encIn, encOut, previousTxIds, signature) ==
    [ID |-> id, Sender |-> sender, Timestamp |-> timestamp,
     Inputs |-> inputs, Outputs |-> outputs,
     EncryptedInputs |-> encIn, EncryptedOutputs |-> encOut,
     PreviousTxIds |-> previousTxIds, Signature |-> signature]

\* EncryptWithAES(key, plaintext), iv being what rand.Reader gave
EncryptWithAES(key, plaintext, iv) == [aes |-> key, iv |-> iv, plain |-> plaintext]

\* serializeUTXOs
serializeUTXOs(utxos) == [json |-> utxos]

\* selectTips
selectTips == << "prevTxID1", "prevTxID2" >>

\* []UTXO -> []*thrylos.UTXO, field by field
ToThrylosUTXOs(utxos) ==
    [i \in 1..Len(utxos) |->
        PUTXO(utxos[i].TransactionID, utxos[i].Index,
              utxos[i].OwnerAddress, utxos[i].Amount)]

\* []*thrylos.UTXO -> []UTXO, field by field; ID and IsSpent stay zero
ToLocalUTXOs(utxos) ==
    [i \in 1..Len(utxos) |->
        UTXO(EmptyStr, utxos[i].TransactionId, utxos[i].Index,
             utxos[i].OwnerAddress, utxos[i].Amount, FALSE)]

\* ConvertLocalTransactionToThrylosTransaction: the fields it does not name
\* keep the zero value of thrylos.Transaction
ConvertLocalTransactionToThrylosTransaction(tx) ==
    [Id |-> tx.ID, Inputs |-> ToThrylosUTXOs(tx.Inputs),
     Outputs |-> ToThrylosUTXOs(tx.Outputs), Timestamp |-> tx.Timestamp,
     PreviousTxIds |-> tx.PreviousTxIds,
     Sender |-> EmptyStr, Signature |-> NoSig,
     EncryptedInputs |-> NoBytes, EncryptedOutputs |-> NoBytes]

\* ConvertThrylosTransactionToLocal: the fields it does not name keep the
\* zero value of shared.Transaction
ConvertThrylosTransactionToLocal(tx) ==
    LocalTransaction(tx.Id, EmptyStr, tx.Timestamp,
                     ToLocalUTXOs(tx.Inputs), ToLocalUTXOs(tx.Outputs),
                     NoBytes, NoBytes, tx.PreviousTxIds, tx.Signature)

\* the transaction CreateAndSignTransaction initialises before it converts
BuiltTransaction(id, sender, inputs, outputs, aesKey, iv1, iv2, timestamp) ==
    LocalTransaction(id, sender, timestamp, << >>, << >>,
                     EncryptWithAES(aesKey, serializeUTXOs(inputs), iv1),
                     EncryptWithAES(aesKey, serializeUTXOs(outputs), iv2),
                     selectTips, NoSig)

\* CreateAndSignTransaction, from the initialised transaction on
CreateAndSignTransaction(tx, ed25519PrivateKey) ==
    LET thrylosTx == ConvertLocalTransactionToThrylosTransaction(tx)
        signed    == SignTransaction(thrylosTx, ed25519PrivateKey)
    IN  ConvertThrylosTransactionToLocal(signed)

ConvUTXOLists == SeqsUpTo(ArgUTXOs, MaxConvUTXOs)

ConvPayloads == { NoBytes, EncryptWithAES("k1", serializeUTXOs(<< >>), "iv1") }

ConvTransactions ==
    { LocalTransaction(<<"x">>, s, t, ins, outs, ei, eo, p, NoSig) :
        s \in { EmptyStr, <<"a">> }, t \in { 0, 1 },
        ins \in ConvUTXOLists, outs \in ConvUTXOLists,
        ei \in ConvPayloads, eo \in ConvPayloads,
        p \in { << >>, << "prevTxID1" >> } }

CreatedTransactions ==
    { BuiltTransaction(<<"x">>, s, ins, outs, "k1", iv1, iv2, 1) :
        s \in Addresses, ins \in ConvUTXOLists, outs \in ConvUTXOLists,
        iv1 \in { "iv1", "iv2" }, iv2 \in { "iv1", "iv2" } }

ConvertRoundTripCall ==
    /\ fnCall.pc = "call"
    /\ fnCall.op = "RoundTrip"
    /\ fnCall' = [fnCall EXCEPT !.pc = "done",
                    !.ret = ConvertThrylosTransactionToLocal(
                              ConvertLocalTransactionToThrylosTransaction(fnCall.tx))]
    /\ UNCHANGED <<admit, pvCall>>
    /\ UNCHANGED <<ledgerVars, balVars, vfyVars, prodVars, nodeVars, svVars, selVars, stakeVars, extVars>>

CreateAndSignTransactionCall ==
    /\ fnCall.pc = "call"
    /\ fnCall.op = "CreateAndSignTransaction"
    /\ fnCall' = [fnCall EXCEPT !.pc = "done",
                    !.ret = CreateAndSignTransaction(fnCall.tx, fnCall.key)]
    /\ UNCHANGED <<admit, pvCall>>
    /\ UNCHANGED <<ledgerVars, balVars, vfyVars, prodVars, nodeVars, svVars, selVars, stakeVars, extVars>>

InitConvert ==
    /\ InitLedgerVars /\ IdleBal /\ IdleVfy /\ InitProducerVars
    /\ IdleNode /\ IdleSv /\ IdleSel /\ IdleStake
    /\ stopObs = NoStop /\ batch = [pc |-> "idle"] /\ dbObs = [op |-> "none"]
    /\ cbCall = [pc |-> "idle"]
    /\ admit = [pc |-> "idle"] /\ pvCall = [pc |-> "idle"]
    /\ \/ \E tx \in ConvTransactions :
            fnCall = [pc |-> "call", op |-> "RoundTrip", tx |-> tx,
                      key |-> "none", ret |-> << >>]
       \/ \E tx \in CreatedTransactions, key \in Keys :
            fnCall = [pc |-> "call", op |-> "CreateAndSignTransaction", tx |-> tx,
                      key |-> key, ret |-> << >>]

NextConvert == ConvertRoundTripCall \/ CreateAndSignTransactionCall

SpecConvert == InitConvert /\ [][NextConvert]_vars

----------------------------------------------------------------------------
(* Claims about the ledger *)

\* C1: over any sequence of ProcessTransaction / UpdateUTXOs calls, every
\* UTXO (transaction id, index) is consumed as an input by at most one
\* committed application; a second transaction consuming it is rejected.
C1_AtMostOnceSpend ==
    \A r \in UTXORefs : spends[r] <= 1

\* C2: VerifyTransaction answers (true, nil) only for a transaction with at
\* least one input, a signature of the sender over the transaction with its
\* signature cleared, every input present in the supplied UTXO map and owned
\* by the sender, and input amounts that sum to the output amounts.
SumSeqAmounts(us) ==
    LET RECURSIVE Go(_)
        Go(i) == IF i > Len(us) THEN 0 ELSE us[i].Amount + Go(i + 1)
    IN  Go(1)

SignedBySender(tx, reg) ==
    /\ tx.Sender \in DOMAIN reg
    /\ \/ tx.Signature = ed25519Sign(reg[tx.Sender], Marshal(ClearSig(tx)))
       \/ tx.Signature = ed25519Sign(reg[tx.Sender],
                                     cachedHashData(Marshal(ClearSig(tx))))

InputInSet(tx, utxos, in) ==
    \E ad \in DOMAIN utxos : \E i \in 1..Len(utxos[ad]) :
        /\ utxos[ad][i].TransactionId = in.TransactionId
        /\ utxos[ad][i].Index = in.Index
        /\ utxos[ad][i].OwnerAddress = tx.Sender

C2_VerifyImpliesValid ==
    (vfyCall.pc = "done" /\ vfyCall.res.ok /\ ~vfyCall.res.err) =>
        /\ Len(vfyCall.tx.Inputs) > 0
        /\ SignedBySender(vfyCall.tx, vfyCall.reg)
        /\ \A i \in 1..Len(vfyCall.tx.Inputs) :
              InputInSet(vfyCall.tx, vfyCall.utxos, vfyCall.tx.Inputs[i])
        /\ SumSeqAmounts(vfyCall.tx.Inputs) = SumSeqAmounts(vfyCall.tx.Outputs)

\* C3: applying a transaction whose inputs include one that is missing from
\* the store, already spent, or not owned by the sender returns an error and
\* leaves every stored UTXO and transaction record as it was.
C3_AtomicFailure ==
    [][obs'.bad => (obs'.result = "err" /\ db' = db)]_vars

\* C4: once a UTXO key is stored with spent = true, no later state shows
\* that key unspent (or absent).
C4_SpentIsPermanent ==
    [][\A k \in DOMAIN db :
          (IsUTXOKey(k) /\ db[k].IsSpent) =>
              (k \in DOMAIN db' /\ db'[k].IsSpent)]_vars

\* C5: GetBalance(A) is the sum of the amounts of the unspent UTXOs owned
\* by A; spent UTXOs and other owners' UTXOs contribute nothing.
UnspentOwned(address, utxos) ==
    [k \in { x \in DOMAIN utxos :
               utxos[x].OwnerAddress = address /\ ~utxos[x].IsSpent } |-> utxos[k]]

C5_BalanceIsUnspentSum ==
    balCall.pc = "done" =>
        balCall.balance = SumAmounts(UnspentOwned(balCall.address, balCall.utxos))

\* C6: no per-address lookup (GetUTXOsForAddress, GetUTXOsByAddress,
\* GetUTXOs) returns an entry that the store holds as spent.
C6_LookupsNeverReturnSpent ==
    \A a \in Addresses :
        /\ \A u \in GetUTXOsForAddress(db, a) : ~u.IsSpent
        /\ \A g \in DOMAIN GetUTXOsByAddress(db, a) :
              \A u \in GetUTXOsByAddress(db, a)[g] : ~u.IsSpent
        /\ \A u \in GetUTXOs(db, a) : ~u.IsSpent

----------------------------------------------------------------------------
(* Claims about the block producer *)

InFlight(p) == pc[p] \in {"produce", "build", "ret", "release"}

\* C7: under any interleaving of ticks at most one production attempt is
\* between acquiring and releasing isProducing, and a tick whose
\* compare-and-swap finds the flag set returns without draining the pool or
\* touching the chain.
C7_SingleProducer ==
    [][ /\ \A p, q \in Tickers :
             ( /\ pc'[p] \in {"produce", "build", "ret", "release"}
               /\ pc'[q] \in {"produce", "build", "ret", "release"} ) => p = q
        /\ \A p \in Tickers :
             (pc'[p] \in {"produce", "build", "ret", "release"}) => isProducing'
        /\ \A p \in Tickers :
             (pc[p] = "cas" /\ isProducing /\ pc'[p] # "cas")
                => /\ pc'[p] = "idle"
                   /\ pending' = pending
                   /\ blocks' = blocks
                   /\ local'[p].drained = << >> ]_vars

\* one attempt holds the flag while another tick stands at its compare-and-swap
C7_Witness ==
    \E p, q \in Tickers : p # q /\ InFlight(p) /\ pc[q] = "cas" /\ isProducing

\* C8: a production that yields the second or a later block started at
\* least TargetBlockTime after the lastBlockTime the previous successful
\* production recorded.
C8_MinBlockSpacing ==
    \A p \in Tickers :
        (pc[p] = "ret" /\ local[p].ret = "block" /\ Len(blocks) >= 2)
            => local[p].gap >= TargetBlockTime

\* C9: when ProcessPendingTransactions fails after draining, no block is
\* persisted, the drained transactions are back at the head of the pool in
\* their order, lastBlockTime keeps its value through the return, and the
\* return clears isProducing.
C9_FailureRestores ==
    [][ \A p \in Tickers :
          /\ (pc[p] = "build" /\ pc'[p] = "ret" /\ local'[p].ret = "err")
                => /\ blocks' = blocks
                   /\ pending' = local[p].drained \o pending
                   /\ lastBlockTime' = lastBlockTime
          /\ (pc[p] = "ret" /\ local[p].ret = "err" /\ pc'[p] # "ret")
                => /\ pc'[p] = "release"
                   /\ lastBlockTime' = lastBlockTime
                   /\ blocks' = blocks
          /\ (pc'[p] \in {"ret", "release"} /\ local'[p].ret = "err")
                => /\ Len(pending') >= Len(local'[p].drained)
                   /\ SubSeq(pending', 1, Len(local'[p].drained))
                         = local'[p].drained
          /\ (pc[p] = "release" /\ pc'[p] # "release")
                => /\ ~isProducing'
                   /\ pc'[p] = "idle" ]_vars

\* a failed attempt that had drained transactions is about to release the
\* flag, some time after the last block time, with the pool restored
C9_Witness ==
    \E p \in Tickers :
        /\ pc[p] = "release"
        /\ local[p].ret = "err"
        /\ local[p].drained # << >>
        /\ Len(pending) > Len(local[p].drained)
        /\ now > lastBlockTime

InPoolValid(id) ==
    \E i \in 1..Len(pending) : pending[i] = [id |-> id, valid |-> TRUE]

----------------------------------------------------------------------------
(* Claims about the submit paths *)

DrainedIds ==
    UNION { { local[p].drained[i].id : i \in 1..Len(local[p].drained) } :
              p \in Tickers }

\* C11: when a tick of the producer reads the pending count, every
\* transaction the submit handlers admitted is in the pool it counts (or was
\* already taken from it into a block).
C11_AdmittedVisible ==
    [][ \A p \in Tickers :
          (pc[p] = "readPending" /\ pc'[p] # "readPending")
             => \A i \in 1..Len(nodePending) :
                   \E n \in PoolIds \cup DrainedIds \cup BlockIds :
                       Itoa(n) = nodePending[i].Id ]_vars

\* C12: the pending pool never holds two transactions with the same id.
C12_OneEntryPerId ==
    \A i, j \in 1..Len(nodePending) :
        nodePending[i].Id = nodePending[j].Id => i = j

\* C13: a submit path changes the pool or the store only for a transaction
\* whose verification succeeded.
C13_AdmitOnlyVerified ==
    (nobs.op \in {"SubmitTransactionHandler", "TransactionHandler",
                  "SubmitTransaction"} /\ nobs.mutated) => nobs.verified

----------------------------------------------------------------------------
(* Claims about the chain and the votes *)

\* C14: every block after the first has the index of the block before it
\* plus one and carries that block's hash as its PrevHash.
C14_ChainLinked ==
    \A i \in 2..Len(nodeBlocks) :
        /\ nodeBlocks[i].Index = nodeBlocks[i - 1].Index + 1
        /\ nodeBlocks[i].PrevHash = nodeBlocks[i - 1].Hash

HashStake(vs, hash) == VoteStake(vs, hash, Len(vs))

\* C16: a run of CountVotes that finds a hash with at least
\* TotalStake/2 + 1 of vote stake appends the block with that hash to the
\* chain and clears the votes; a run that finds none changes neither.
C16_MajorityAdopts ==
    [][ nobs'.op = "CountVotes" =>
          IF \E v \in Range(votes) :
                HashStake(votes, v.BlockHash) >= TotalStake(stakeholders) \div 2 + 1
          THEN /\ votes' = << >>
               /\ Len(nodeBlocks') = Len(nodeBlocks) + 1
               /\ HashStake(votes, nodeBlocks'[Len(nodeBlocks')].Hash)
                     >= TotalStake(stakeholders) \div 2 + 1
          ELSE votes' = votes /\ nodeBlocks' = nodeBlocks ]_vars

----------------------------------------------------------------------------
(* Claims about signing *)

\* C15: a transaction signed by SignTransaction with a private key is
\* accepted by VerifyTransactionSignature with the matching public key, and
\* by VerifyTransaction when it has inputs.
C15_SignVerifyRoundTrip ==
    svCall.pc = "done"
        => /\ svCall.sigOk
           /\ (Len(svCall.tx.Inputs) > 0 => svCall.txOk)

----------------------------------------------------------------------------
(* Claims about validator selection *)

SelectedOk(tbl, rngOk, res) ==
    IF DOMAIN tbl = {} \/ TotalStake(tbl) = 0 THEN res = EmptyStr
    ELSE rngOk => (res \in DOMAIN tbl /\ tbl[res] > 0)

\* C17: SelectValidator returns no address when the table is empty or its
\* total stake is 0; otherwise, for every draw in [0, total stake), it
\* returns an address of the table whose stake is positive.
C17_SelectsStakedAddress ==
    /\ selCall.pc \in {"one", "done"}
          => SelectedOk(selCall.tbl, selCall.rngOk, selCall.res1)
    /\ selCall.pc = "done"
          => SelectedOk(selCall.tbl, selCall.rngOk, selCall.res2)

\* a table that also holds an address without stake, and a draw that
\* selected a staked address
C17_Witness ==
    /\ selCall.pc = "done"
    /\ selCall.rngOk
    /\ \E ad \in DOMAIN selCall.tbl : selCall.tbl[ad] = 0
    /\ selCall.res1 \in DOMAIN selCall.tbl
    /\ selCall.tbl[selCall.res1] > 0

\* C18: two runs of SelectValidator on the same table with the same draw
\* return the same address.
C18_SameDrawSameValidator ==
    selCall.pc = "done" => selCall.res1 = selCall.res2

----------------------------------------------------------------------------
(* Claims about the staking rewards *)

\* the stake an address holds during the hour that starts at h
RECURSIVE StakeAt(_, _)
StakeAt(log, h) ==
    IF log = << >> THEN 0
    ELSE (IF Head(log).ts <= h THEN Head(log).delta ELSE 0)
           + StakeAt(Tail(log), h)

\* the stake held, added up hour by hour over [t0, t1)
RECURSIVE StakeHours(_, _, _)
StakeHours(log, t0, t1) ==
    IF t0 >= t1 THEN 0 ELSE StakeAt(log, t0) + StakeHours(log, t0 + 1, t1)

PeriodHours == [a \in StakeAddrs |->
                  StakeHours(stk.events[a], stk.ret.t0, stk.ret.t1)]

Nearest(x, n, d) ==
    \/ x = n \div d /\ 2 * (n % d) <= d
    \/ x = n \div d + 1 /\ 2 * (n % d) >= d

----------------------------------------------------------------------------
(* Claims about the UTXO cache *)

\* C22: the cache never holds an unspent output that the store does not
\* hold: what updateUTXOsInTxn did to the cache does not outlive a store
\* transaction of ProcessTransaction that did not commit.
C22_CacheWithinStore ==
    \A k \in DOMAIN cache :
        ~cache[k].IsSpent => (UtxoPrefix \o k) \in DOMAIN db

----------------------------------------------------------------------------
(* Claims about stopping the producer *)

\* C21: after Stop() the tick loop observes the stop signal: no tick that
\* begins after Stop starts a production attempt.  When Stop is called with
\* every ticker between two ticks, every later attempt belongs to a tick
\* that began after it.
C21_NoAttemptAfterStop ==
    (stopObs.stopped /\ stopObs.quiet) => \A p \in Tickers : ~Attempting(p)

\* C29: Stop() called while an attempt is in flight does not let a second
\* attempt start: no two tickers are between acquiring and releasing the
\* producing flag at once.
C29_NoSecondAttempt ==
    (stopObs.stopped /\ stopObs.inflight # {}) =>
        \A p, q \in Tickers : (Attempting(p) /\ Attempting(q)) => p = q

----------------------------------------------------------------------------
(* Claims about processTransactionsBatch *)

\* the call can take no further step: it has returned, or the calling
\* goroutine waits for workers that wait for the channel
BatchBlocked ==
    /\ batch.pc = "wait"
    /\ batch.chan = << >> /\ ~batch.closed
    /\ \A k \in Workers : batch.w[k].pc = "recv"

BatchAtRest == batch.pc = "done" \/ BatchBlocked

\* C23: processTransactionsBatch is all-or-nothing: once the call is at
\* rest, no transaction of the batch is committed if storing one of them
\* failed, and all of them are committed if none failed.
C23_AllOrNothing ==
    (batch.pc # "idle" /\ BatchAtRest) =>
        IF batch.failed # {} THEN batch.committed = {}
        ELSE batch.committed = Range(batch.txs)

\* C30: processTransactionsBatch terminates for every non-empty batch: the
\* calling goroutine never waits for the worker group while every worker
\* waits for a channel that is empty and not closed.
C30_NoWaitDeadlock ==
    batch.pc # "idle" => ~BatchBlocked

----------------------------------------------------------------------------
(* Claims about the store lookups *)

\* C24: with blocks 0..n stored by InsertBlock, GetLastBlockData and
\* GetLastBlockIndex answer index n without error, whatever other keys the
\* store holds.
C24_TipIsHighestBlock ==
    ( /\ dbObs.op \in {"GetLastBlockData", "GetLastBlockIndex"}
      /\ BlockKeys(db) # {} )
    => /\ ~dbObs.err
       /\ dbObs.index = Cardinality(BlockKeys(db)) - 1

\* C25: RetrievePrivateKey(address) right after a successful
\* InsertOrUpdatePrivateKey(address, k) returns exactly k.
C25_PrivateKeyRoundTrip ==
    [][ ( /\ dbObs.op = "InsertOrUpdatePrivateKey" /\ ~dbObs.err
          /\ dbObs'.op = "RetrievePrivateKey"
          /\ dbObs'.address = dbObs.address )
        => (~dbObs'.err /\ dbObs'.ret = dbObs.key) ]_vars

----------------------------------------------------------------------------
(* Claims about building a payment *)

\* C26: whatever amount is requested, every output that
\* CreateAndBroadcastTransaction builds has a positive amount.
C26_OutputsPositive ==
    (cbCall.pc = "done" /\ ~cbCall.err)
    => \A i \in 1..Len(cbCall.outputs) : cbCall.outputs[i].Amount > 0

\* the sum of the first k amounts
RECURSIVE PrefixSum(_, _)
PrefixSum(amounts, k) ==
    IF k = 0 THEN 0 ELSE PrefixSum(amounts, k - 1) + amounts[k]

\* C38: CollectInputsForTransaction fails exactly when the sender's UTXOs
\* sum to less than amount; otherwise the inputs are the UTXOs up to the
\* first one that makes the collected sum reach amount, change is the sum of
\* the inputs minus amount and is not negative, the outputs of the
\* transaction built from them sum to the inputs, and there is a change
\* output to the sender exactly when change > 0.
C38_CollectedInputsBalance ==
    cbCall.pc = "done" =>
        /\ cbCall.err <=> PrefixSum(cbCall.utxos, Len(cbCall.utxos)) < cbCall.amount
        /\ ~cbCall.err =>
             LET k == Len(cbCall.inputs) IN
               /\ k <= Len(cbCall.utxos)
               /\ cbCall.inputs = SubSeq(cbCall.utxos, 1, k)
               /\ PrefixSum(cbCall.utxos, k) >= cbCall.amount
               /\ \A j \in 0..(k - 1) : PrefixSum(cbCall.utxos, j) < cbCall.amount
               /\ cbCall.change = PrefixSum(cbCall.inputs, k) - cbCall.amount
               /\ cbCall.change >= 0
               /\ SumSeqAmounts(cbCall.outputs) = PrefixSum(cbCall.inputs, k)
               /\ Len(cbCall.outputs) = (IF cbCall.change > 0 THEN 2 ELSE 1)
               /\ cbCall.change > 0 =>
                    cbCall.outputs[2] = [OwnerAddress |-> "sender",
                                         Amount |-> cbCall.change]

\* a payment that needed two UTXOs and gave change
C38_Witness ==
    /\ cbCall.pc = "done" /\ ~cbCall.err
    /\ Len(cbCall.inputs) = 2
    /\ Len(cbCall.utxos) = 3
    /\ cbCall.change > 0
    /\ Len(cbCall.outputs) = 2

----------------------------------------------------------------------------
(* Claims about the SubmitTransaction RPC *)

SubmittedKey == TransactionPrefix \o nobs'.req.val.Transaction.val.Id

\* C27: the RPC answers InvalidArgument and leaves the store as it was when
\* the request or its transaction is nil, answers Internal when the store
\* fails, and answers "Transaction added successfully" only when the
\* transaction is in the store under transaction-{id}.
C27_RpcStatusMatchesStore ==
    [][ nobs'.op = "SubmitTransaction" =>
          /\ NilRequest(nobs'.req)
               => (nobs'.code = "InvalidArgument" /\ db' = db)
          /\ (~NilRequest(nobs'.req) /\ ~nobs'.storeOk)
               => nobs'.code = "Internal"
          /\ nobs'.status = "Transaction added successfully"
               => /\ ~NilRequest(nobs'.req)
                  /\ nobs'.code = "OK"
                  /\ SubmittedKey \in DOMAIN db'
                  /\ db'[SubmittedKey] =
                       ConvertProtoTransactionToShared(nobs'.req.val.Transaction.val)
      ]_vars

C27_Witness ==
    /\ nobs.op = "SubmitTransaction"
    /\ nobs.status = "Transaction added successfully"
    /\ (TransactionPrefix \o nobs.req.val.Transaction.val.Id) \in DOMAIN db

----------------------------------------------------------------------------
(* Claims about the chain after construction *)

----------------------------------------------------------------------------
(* Claims about concurrent admission *)

\* C31: when the AddPendingTransaction calls of all concurrent handlers have
\* returned, the pending pool holds every one of their transactions.
C31_NoAdmissionLost ==
    (\A h \in Handlers : admit.pc[h] = "returned")
    => \A h \in Handlers :
         \E i \in 1..Len(nodePending) : nodePending[i] = HandlerTx(h)

----------------------------------------------------------------------------
(* Claims about the vote tally *)

\* the validators among the first k votes that voted for hash
VotersFor(vs, hash, k) ==
    { vs[i].Validator : i \in { j \in 1..k : vs[j].BlockHash = hash } }

\* the stakeholder-table stake of those validators, each counted once
TableStakeOf(tbl, voters) ==
    SumStakes([ad \in voters \cap DOMAIN tbl |-> tbl[ad]])

\* the number of votes the loop of CountVotes reads before it breaks or ends
VotesRead(vs, majorityStake) ==
    IF ReachesMajority(vs, majorityStake)
    THEN CHOOSE k \in 1..Len(vs) :
           /\ VoteStake(vs, vs[k].BlockHash, k) >= majorityStake
           /\ \A j \in 1..(k - 1) : VoteStake(vs, vs[j].BlockHash, j) < majorityStake
    ELSE Len(vs)

\* C32: whatever votes arrived on /vote, the stake CountVotes accumulates
\* for a block hash never exceeds the stakeholder-table stake of the
\* distinct validators that voted for that hash.
C32_StakeCountedOncePerValidator ==
    [][ nobs'.op = "CountVotes" =>
          \A k \in 1..VotesRead(votes, TotalStake(stakeholders) \div 2 + 1) :
             VoteStake(votes, votes[k].BlockHash, k)
                <= TableStakeOf(stakeholders, VotersFor(votes, votes[k].BlockHash, k))
      ]_vars

----------------------------------------------------------------------------
(* Claims about finding written outputs *)

\* C33: an unspent output that UpdateUTXOs or ProcessTransaction stored
\* (under the key addNewUTXO writes) is returned to its owner by GetUTXOs
\* and by GetUTXOsForAddress.
C33_OwnerFindsWrittenOutput ==
    \A k \in DOMAIN db :
        (IsUTXOKey(k) /\ k = UTXOKey(db[k]) /\ ~db[k].IsSpent) =>
            /\ db[k] \in GetUTXOs(db, db[k].OwnerAddress)
            /\ db[k] \in GetUTXOsForAddress(db, db[k].OwnerAddress)

----------------------------------------------------------------------------
(* Claims about ValidateTransaction *)

\* the map entry an input resolves to
EntryOf(available, input) == available[UtxoMapKey(input)]

AllInputsAvailable(tx, available) ==
    \A i \in 1..Len(tx.Inputs) :
        /\ UtxoMapKey(tx.Inputs[i]) \in DOMAIN available
        /\ EntryOf(available, tx.Inputs[i]) # << >>

RecordedAmounts(tx, available) ==
    [i \in 1..Len(tx.Inputs) |-> EntryOf(available, tx.Inputs[i])[1]]

\* C34: ValidateTransaction(tx, available) is true exactly when every input
\* of tx has a non-empty entry in the available map and the amounts recorded
\* in those entries sum to the output amounts of tx; the amounts the inputs
\* declare themselves play no part.
C34_ValidIffAvailableAndBalanced ==
    (fnCall.pc = "done" /\ fnCall.op = "ValidateTransaction") =>
        (fnCall.ret <=>
            /\ AllInputsAvailable(fnCall.tx, fnCall.available)
            /\ SumSeqAmounts(RecordedAmounts(fnCall.tx, fnCall.available))
                 = SumSeqAmounts(fnCall.tx.Outputs))

\* an accepted transaction whose declared input amounts do not balance
C34_Witness ==
    /\ fnCall.pc = "done" /\ fnCall.op = "ValidateTransaction"
    /\ fnCall.ret
    /\ Len(fnCall.tx.Inputs) = 2
    /\ SumSeqAmounts(fnCall.tx.Inputs) # SumSeqAmounts(fnCall.tx.Outputs)

\* C35: two inputs with different (transaction id, index) pairs never
\* resolve to the same entry of the available map in ValidateTransaction,
\* nor to the same store key in MarkUTXOAsSpent / addNewUTXO.
C35_InputResolutionUnique ==
    (fnCall.pc = "done" /\ fnCall.op = "ValidateTransaction") =>
        \A i, j \in 1..Len(fnCall.tx.Inputs) :
            UTXORef(fnCall.tx.Inputs[i]) # UTXORef(fnCall.tx.Inputs[j]) =>
                /\ UtxoMapKey(fnCall.tx.Inputs[i]) # UtxoMapKey(fnCall.tx.Inputs[j])
                /\ UTXOKey(fnCall.tx.Inputs[i]) # UTXOKey(fnCall.tx.Inputs[j])

----------------------------------------------------------------------------
(* Claims about ParallelVerifyTransactions *)

\* C36: ParallelVerifyTransactions returns a map with one entry for each
\* distinct transaction id of the batch, true exactly when that transaction
\* verifies, whatever the order in which the goroutines finish; an invalid
\* transaction leaves the entries of the others as they are.
C36_OneVerdictPerId ==
    pvCall.pc = "returned" =>
        /\ ~pvCall.ret.err
        /\ DOMAIN pvCall.ret.results =
             { pvCall.transactions[i].Id : i \in 1..Len(pvCall.transactions) }
        /\ \A i \in 1..Len(pvCall.transactions) :
             pvCall.ret.results[pvCall.transactions[i].Id]
               = VerifyTransaction_v1(pvCall.transactions[i], pvCall.utxos,
                                      PublicKeyMap).ok

----------------------------------------------------------------------------
(* Claims about stake-weighted selection *)

\* C37: for every stakeholder table with non-negative stakes and every
\* order in which the table is walked, the number of draws r in
\* [0, total stake) for which SelectValidator returns address a is a's stake.
C37_DrawsPerAddressEqualStake ==
    (fnCall.pc = "done" /\ fnCall.op = "SelectValidator") =>
        \A a \in DOMAIN fnCall.tbl : fnCall.ret[a] = fnCall.tbl[a]

\* three stakeholders with different stakes, one of them without stake
C37_Witness ==
    /\ fnCall.pc = "done" /\ fnCall.op = "SelectValidator"
    /\ Cardinality(DOMAIN fnCall.tbl) = 3
    /\ \E a, b, c \in DOMAIN fnCall.tbl :
         /\ fnCall.tbl[a] = 0 /\ fnCall.tbl[b] = 1 /\ fnCall.tbl[c] = 2
         /\ fnCall.ret[c] = 2

----------------------------------------------------------------------------
(* Claims about the timestamp window *)

\* C39: validateTimestamp returns true exactly when the timestamp lies
\* within the last hour, now - 1h < timestamp <= now; it returns false for
\* timestamps older than one hour and for timestamps in the future.
C39_WithinLastHour ==
    (fnCall.pc = "done" /\ fnCall.op = "validateTimestamp") =>
        (fnCall.ret <=>
            /\ fnCall.clock - Hour < fnCall.timestamp
            /\ fnCall.timestamp <= fnCall.clock)

----------------------------------------------------------------------------
(* Claims about the transaction conversions *)

SameFields(t, u) ==
    /\ t.ID = u.ID /\ t.Sender = u.Sender /\ t.Timestamp = u.Timestamp
    /\ t.Inputs = u.Inputs /\ t.Outputs = u.Outputs
    /\ t.EncryptedInputs = u.EncryptedInputs
    /\ t.EncryptedOutputs = u.EncryptedOutputs
    /\ t.PreviousTxIds = u.PreviousTxIds

\* C40: converting a transaction to the protobuf type and back gives the
\* transaction it started from in id, sender, timestamp, inputs, outputs,
\* encrypted payloads and previous ids, so the transaction that
\* CreateAndSignTransaction returns carries the sender and the encrypted
\* inputs and outputs it was built with.
C40_ConversionRoundTrip ==
    /\ (fnCall.pc = "done" /\ fnCall.op = "RoundTrip")
          => SameFields(fnCall.ret, fnCall.tx)
    /\ (fnCall.pc = "done" /\ fnCall.op = "CreateAndSignTransaction")
          => /\ fnCall.ret.Sender = fnCall.tx.Sender
             /\ fnCall.ret.EncryptedInputs = fnCall.tx.EncryptedInputs
             /\ fnCall.ret.EncryptedOutputs = fnCall.tx.EncryptedOutputs


====
